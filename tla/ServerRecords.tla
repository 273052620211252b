---------------------------- MODULE ServerRecords ----------------------------
(***************************************************************************)
(* Rows whose counterpart is not a site's configuration: a database in     *)
(* MariaDB, a DNS record at Cloudflare, the server's outgoing mail.  A     *)
(* request commits the row with a job; the worker takes the jobs in order, *)
(* reads the row, makes the call and writes what came of it.  Only the     *)
(* mail job is put back when the answer of its call is lost; a panel that  *)
(* restarts puts back any.  Requests run while the worker works, and DNS   *)
(* requests read the record before the transaction that changes it.        *)
(***************************************************************************)
EXTENDS Naturals, Sequences, FiniteSets

CONSTANTS RecordKinds,  \* of "database", "dns" and "mail"
          RecordUsers,  \* browser requests on the DNS record under way at once
          MaxEdits,     \* bound on the requests that queue a job
          MaxLosses     \* bound on the calls that fail, or whose answer is lost

RecordsAssumption ==
    RecordKinds \subseteq {"database", "dns", "mail"} /\ MaxEdits \in Nat /\ MaxLosses \in Nat

VARIABLES record, \* per kind the row: its status, the value wanted, the id at the provider
          todo,   \* the jobs not finished, in the order they are taken
          doing,  \* the row the worker read for the first of them, once it started
          read,   \* per request on the DNS record, the row it read
          base,   \* the database exists
          zone,   \* the records at the provider: value by id
          relay,  \* the hostname Postfix runs with
          edits, losses

recordVars == <<record, todo, doing, read, base, zone, relay, edits, losses>>

Absent == [status |-> "none", value |-> 0, remote |-> 0]
Idle   == [job |-> [kind |-> "none", action |-> "none"], row |-> Absent]

RecordsInit ==
    /\ record = [k \in {"database", "dns", "mail"} |-> Absent]
    /\ todo = <<>> /\ doing = Idle /\ read = [u \in RecordUsers |-> Absent]
    /\ base = FALSE /\ zone = <<>> /\ relay = 0
    /\ edits = 0 /\ losses = 0

-----------------------------------------------------------------------------
\* Requests.

Enqueue(k, action, row) ==
    /\ k \in RecordKinds /\ edits < MaxEdits
    /\ edits' = edits + 1
    /\ record' = [record EXCEPT ![k] = row]
    /\ todo' = Append(todo, [kind |-> k, action |-> action])
    /\ UNCHANGED <<doing, base, zone, relay, losses>>

CreateDatabase ==
    /\ record["database"].status = "none"
    /\ Enqueue("database", "apply", [status |-> "queued", value |-> 1, remote |-> 0])
    /\ UNCHANGED read
EnqueueDatabaseDelete ==
    /\ record["database"].status \in {"active", "failed", "delete_failed"}
    /\ Enqueue("database", "delete", [record["database"] EXCEPT !.status = "deleting"])
    /\ UNCHANGED read

\* Nothing keeps two changes of the mail service apart.
ConfigureMailService(value) ==
    /\ Enqueue("mail", "apply", [status |-> "queued", value |-> value, remote |-> 0])
    /\ UNCHANGED read

CreateDNSRecord(value) ==
    /\ record["dns"].status = "none" /\ \A u \in RecordUsers : read[u] = Absent
    /\ Enqueue("dns", "apply", [status |-> "queued", value |-> value, remote |-> 0])
    /\ UNCHANGED read

ReadDNSRecord(u) ==
    /\ read[u] = Absent /\ record["dns"].status \in {"active", "failed", "delete_failed"}
    /\ read' = [read EXCEPT ![u] = record["dns"]]
    /\ UNCHANGED <<record, todo, doing, base, zone, relay, edits, losses>>

\* The status was looked at when the record was read; the transaction changes
\* whatever row there is, and leaves its id at the provider alone.
UpdateDNSRecord(u, value) ==
    /\ read[u].status \in {"active", "failed"}
    /\ Enqueue("dns", "apply", IF record["dns"] = Absent THEN Absent
                               ELSE [record["dns"] EXCEPT !.value = value, !.status = "queued"])
    /\ read' = [read EXCEPT ![u] = Absent]

\* A record read without an id at the provider is removed here and now.
DeleteDNSRecord(u) ==
    /\ read[u] # Absent
    /\ read' = [read EXCEPT ![u] = Absent]
    /\ IF read[u].remote = 0
       THEN /\ record' = [record EXCEPT !["dns"] = Absent]
            /\ UNCHANGED <<todo, doing, base, zone, relay, edits, losses>>
       ELSE Enqueue("dns", "delete", IF record["dns"] = Absent THEN Absent
                                     ELSE [record["dns"] EXCEPT !.status = "deleting"])

Edit == \/ CreateDatabase \/ EnqueueDatabaseDelete
        \/ \E v \in 1..2 : ConfigureMailService(v) \/ CreateDNSRecord(v)
        \/ \E u \in RecordUsers :
              ReadDNSRecord(u) \/ DeleteDNSRecord(u) \/ \E v \in 1..2 : UpdateDNSRecord(u, v)

-----------------------------------------------------------------------------
\* The worker: it starts with the row as it is now, ...

Start ==
    /\ todo # <<>> /\ doing = Idle
    /\ doing' = [job |-> Head(todo), row |-> record[Head(todo).kind]]
    /\ UNCHANGED <<record, todo, read, base, zone, relay, edits, losses>>

\* ... calls, and writes the outcome.  A call that did its work may still
\* count as failed: its answer was lost.

MariaDBCreate == base' = TRUE  /\ UNCHANGED <<zone, relay>>
MariaDBDelete == base' = FALSE /\ UNCHANGED <<zone, relay>>

\* Without an id a record is posted, with one it is put in its place.
applyCloudflare(row) ==
    /\ IF row.remote = 0 THEN zone' = Append(zone, row.value)
       ELSE row.remote \in DOMAIN zone /\ zone[row.remote] # 0 /\ zone' = [zone EXCEPT ![row.remote] = row.value]
    /\ UNCHANGED <<base, relay>>
DeleteRemote(row) ==
    /\ row.remote \in DOMAIN zone /\ zone[row.remote] # 0
    /\ zone' = [zone EXCEPT ![row.remote] = 0]
    /\ UNCHANGED <<base, relay>>

\* Postfix is set up for the hostname.
ApplyMailService(row) == relay' = row.value /\ UNCHANGED <<base, zone>>

Work == LET j == doing.job IN
    \/ j.kind = "database" /\ j.action = "apply"  /\ MariaDBCreate
    \/ j.kind = "database" /\ j.action = "delete" /\ MariaDBDelete
    \/ j.kind = "dns"      /\ j.action = "apply"  /\ applyCloudflare(doing.row)
    \/ j.kind = "dns"      /\ j.action = "delete" /\ DeleteRemote(doing.row)
    \/ j.kind = "mail"                            /\ ApplyMailService(doing.row)
NoWork == UNCHANGED <<base, zone, relay>>

\* Mutant of Superseded: every outcome is written to the row.
NeverSuperseded == FALSE

\* A row deleted meanwhile, or wanted otherwise by a later job, takes no outcome.
Superseded == doing.job.kind = "mail" /\ \E i \in 2..Len(todo) : todo[i].kind = "mail"
Outcome(ok, remote) == LET k == doing.job.kind IN
    /\ todo' = Tail(todo) /\ doing' = Idle
    /\ record' = IF record[k] = Absent \/ Superseded THEN record
                 ELSE [record EXCEPT ![k] =
                         IF ok /\ doing.job.action = "delete" THEN Absent
                         ELSE [@ EXCEPT !.remote = IF ok /\ k = "dns" THEN remote ELSE record[k].remote,
                                        !.status = IF ok THEN "active"
                                                   ELSE IF doing.job.action = "delete" THEN "delete_failed"
                                                   ELSE "failed"]]

Remote == IF doing.row.remote = 0 THEN Len(zone') ELSE doing.row.remote

\* The row was deleted before the worker read it, or the provider knows no such record.
Impossible == LET k == doing.job.kind IN
    \/ doing.row = Absent
    \/ k = "dns" /\ doing.row.remote # 0 /\ zone[doing.row.remote] = 0
    \/ k = "dns" /\ doing.job.action = "delete" /\ doing.row.remote = 0

Loss == losses < MaxLosses /\ losses' = losses + 1

Done == /\ doing # Idle /\ ~ Impossible
        /\ Work /\ Outcome(TRUE, Remote)
        /\ UNCHANGED <<read, edits, losses>>
Fails == /\ doing # Idle
         /\ NoWork /\ Outcome(FALSE, 0)
         /\ IF Impossible THEN losses' = losses ELSE Loss
         /\ UNCHANGED <<read, edits>>

\* The answer does not come: the work is done or not, or the call broke off.
LostAnswer ==
    /\ doing # Idle /\ ~ Impossible /\ Loss
    /\ Work \/ NoWork
    /\ IF doing.job.kind = "mail" THEN doing' = Idle /\ UNCHANGED <<record, todo>> ELSE Outcome(FALSE, 0)
    /\ UNCHANGED <<read, edits>>
PanelRestarts ==
    /\ doing # Idle /\ ~ Impossible /\ Loss
    /\ Work \/ NoWork
    /\ doing' = Idle
    /\ read' = [u \in RecordUsers |-> Absent]
    /\ UNCHANGED <<record, todo, edits>>

RecordsNext == Edit \/ Start \/ Done \/ Fails \/ LostAnswer \/ PanelRestarts
RecordsSpec == RecordsInit /\ [][RecordsNext]_recordVars

-----------------------------------------------------------------------------

RecordsTypeOK ==
    /\ \A k \in DOMAIN record : record[k].value \in 0..2 /\ record[k].remote \in 0..Len(zone)
    /\ \A i \in DOMAIN zone : zone[i] \in 0..2
    /\ base \in BOOLEAN /\ relay \in 0..2

Quiet(k) == \A i \in DOMAIN todo : todo[i].kind # k

\* Whatever answers were lost: a database that reads as active exists and one
\* whose row is gone does not, the mail row reads as active only while Postfix
\* runs with its hostname, and an active DNS record nobody is changing has its
\* value at the provider.
RecordsAreInForce ==
    /\ record["database"].status = "active" => base
    /\ record["database"].status = "none" => ~ base
    /\ record["mail"].status = "active" => relay = record["mail"].value
    /\ LET r == record["dns"] IN
       r.status = "active" /\ Quiet("dns") => r.remote # 0 /\ zone[r.remote] = r.value
=============================================================================
