------------------------------- MODULE SiteWork -------------------------------
(***************************************************************************)
(* What is done to sites that are there, in one instance for TLC: the jobs *)
(* that replace a site's content, the file manager, the settings its jobs  *)
(* bring into force, the schedules that queue jobs, and the records kept   *)
(* at MariaDB, Cloudflare and Postfix.  Each keeps its state in variables  *)
(* of its own and no step changes that of two, so how their steps          *)
(* interleave tells nothing: a behaviour is a behaviour of one part,       *)
(* chosen at the start, and the others stay put.                           *)
(***************************************************************************)
EXTENDS Integers, FiniteSets, Sequences

CONSTANTS Jobs, Kinds, Stops, MaxStops, MaxTries,
          Uploads, Dirs, Names, MaxPieces, MaxChanges,
          SettingKinds, MaxRequests, MaxFaults,
          Schedules, Processes, Intervals, MaxTime, MaxAdjusted,
          RecordKinds, RecordUsers, MaxEdits, MaxLosses

VARIABLES part,
          jobs, points, files, db, snaps, previous, copies, work, results, journal, replaced,
          calls, begun, run, stops,
          tree, upload, staged, records, published, told, op, report, changes,
          webSite, row, queue, conf, spent, faults, last,
          schedule, ready, restorable, runs, pass, time, adjusted,
          record, todo, doing, read, base, zone, relay, edits, losses

content   == <<jobs, points, files, db, snaps, previous, copies, work, results, journal, replaced,
               calls, begun, run, stops>>
manager   == <<tree, upload, staged, records, published, told, op, report, changes>>
settings  == <<webSite, row, queue, conf, spent, faults, last>>
schedules == <<schedule, ready, restorable, runs, pass, time, adjusted>>
server    == <<record, todo, doing, read, base, zone, relay, edits, losses>>
vars      == <<part, content, manager, settings, schedules, server>>

C == INSTANCE SiteContent
F == INSTANCE SiteFiles
S == INSTANCE SiteSettings
B == INSTANCE BackupSchedules
R == INSTANCE ServerRecords

ASSUME ContentAssumption   == C!ContentAssumption
ASSUME FilesAssumption     == F!FilesAssumption
ASSUME SettingsAssumption  == S!SettingsAssumption
ASSUME SchedulesAssumption == B!SchedulesAssumption
ASSUME RecordsAssumption   == R!RecordsAssumption

\* Of the initial states of a part one will do for the others.
Init == /\ part \in {"content", "files", "settings", "schedules", "records"}
        /\ C!ContentInit /\ F!FilesInit /\ S!SettingsInit /\ B!SchedulesInit /\ R!RecordsInit
        /\ part # "content"  => snaps = {}
        /\ \A p \in DOMAIN tree : part # "files" \/ p[2] = "b" => tree[p] = F!Absent
        /\ part # "settings" => webSite.kind = "wordpress"

\* Both uploads go to one path, the first in two pieces, and beside them one
\* change is made that knows no other name.  Without them there are two names, and
\* an archive may be extracted.
OneName  == /\ changes' < 2 /\ \A d \in Dirs : tree'[<<d, "b">>] = F!Absent
            /\ \A i \in DOMAIN op'.left : op'.left[i][2] = "a"
Bounded  == /\ \A u \in Uploads : upload'[u].path = <<"top", "a">>
            /\ upload'[1].pieces \in {-1, 2} /\ upload'[2].pieces < 2
            /\ (\E u \in Uploads : upload'[u] # F!NoUpload) => OneName
            /\ changes' = 2 => \E p \in DOMAIN tree : tree[p] = F!Archive

Content  == /\ part = "content"  /\ C!ContentNext
            /\ UNCHANGED <<part, manager, settings, schedules, server>>
Files    == /\ part = "files"    /\ F!FilesNext /\ Bounded
            /\ UNCHANGED <<part, content, settings, schedules, server>>
Settings == /\ part = "settings" /\ S!SettingsNext
            /\ UNCHANGED <<part, content, manager, schedules, server>>
Schedule == /\ part = "schedules" /\ B!SchedulesNext
            /\ UNCHANGED <<part, content, manager, settings, server>>
Record   == /\ part = "records" /\ R!RecordsNext
            /\ UNCHANGED <<part, content, manager, settings, schedules>>

Next == Content \/ Files \/ Settings \/ Schedule \/ Record
Spec == Init /\ [][Next]_vars

\* The properties of the parts, stated and explained in their modules: of the
\* content and the files of a site,
AnswersAreTrue    == C!AnswersAreTrue
Recoverable       == C!Recoverable
SearchReplaceOnce == C!SearchReplaceOnce
UploadsAreExact   == F!UploadsAreExact
\* of its settings and schedules,
RowsAreInForce    == S!RowsAreInForce
OneRunPerPeriod   == B!OneRunPerPeriod
\* and of what the panel keeps elsewhere.
RecordsAreInForce == R!RecordsAreInForce
=============================================================================
