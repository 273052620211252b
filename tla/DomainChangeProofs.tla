------------------------- MODULE DomainChangeProofs -------------------------
(***************************************************************************)
(* The invariant of the domain change for any bound on failures and        *)
(* visitors' writes, and that the change implements DomainSwitch.          *)
(***************************************************************************)
EXTENDS DomainChange, TLAPS

\* One vhost of what a phase wants is a vhost.
LEMMA WantedVhosts ==
  ASSUME TypeOK, NEW st
  PROVE  \A part \in {"http", "tls"} : [vhost EXCEPT ![part] = Wanted(st)[part]] \in Vhosts
  <1>1. Wanted(st) \in Vhosts
    BY DEF Wanted, Active, Maintenance, Renamed, Vhosts
  <1> QED BY <1>1 DEF TypeOK, Vhosts

\* One vhost file is written and the other left alone.
LEMMA VhostWritten ==
  ASSUME TypeOK, WriteHTTP \/ WriteTLS
  PROVE  vhost' \in Vhosts
  <1> DEFINE Written(part) == [vhost EXCEPT ![part] = Wanted(mem.state)[part]]
  <1>1. vhost \in Vhosts /\ Written("http") \in Vhosts /\ Written("tls") \in Vhosts
    BY WantedVhosts DEF TypeOK
  <1>2. vhost' \in {vhost, Written("http"), Written("tls")}
    BY DEF WriteHTTP, WriteTLS, WriteVhost, Try
  <1> QED BY <1>1, <1>2

\* A journal with one more of its flags set is a journal.
LEMMA JournalMarked ==
  ASSUME TypeOK
  PROVE  /\ mem \in Journal /\ journal \in Journal
         /\ [mem EXCEPT !.ready = TRUE] \in Journal
         /\ [mem EXCEPT !.started = TRUE] \in Journal
  BY DEF TypeOK, Journal

\* At the start of a call it has moved nothing.
LEMMA CallsStartStill ==
  ASSUME SwitchInv
  PROVE  /\ JournalView \in Later(JournalView)
         /\ JournalView \in {"none", "restored"} => HostView = Up(Old)
         /\ JournalView = "complete" => HostView = Up(New)
  <1>1. JournalView \in {"none", "changing", "activating", "complete", "rollback", "restored"}
    BY DEF SwitchInv, TypeOK, Journal, States, JournalView
  <1>2. JournalView \in {"none", "restored"} => Serving = Old
    BY DEF SwitchInv, JournalTellsHost, JournalView, Serving, Active
  <1>3. JournalView = "complete" => Serving = New
    BY DEF SwitchInv, JournalTellsHost, JournalView, Serving, Renamed
  <1>4. JournalView \in Later(JournalView)
    BY <1>1 DEF Later
  <1> QED BY <1>2, <1>3, <1>4, NamesAssumption DEF HostView

\* Every step keeps the types.
LEMMA TypesKept ==
  ASSUME TypeOK, JournalTellsHost, [Next]_vars
  PROVE  TypeOK'
  <1> USE BoundsAssumption, NamesAssumption DEF TypeOK, Journal, States, Vhosts, Urls, Database, Steps, Replies, vars, disk, world, visits, call
  <1>1. CASE Call
    BY <1>1 DEF Call
  <1>2. CASE RefuseCall
    BY <1>2 DEF RefuseCall, Try, Reply
  <1>3. CASE AnswerAgain
    BY <1>3 DEF AnswerAgain, Reply
  <1>4. CASE PreflightFails
    BY <1>4 DEF PreflightFails, PreflightReply, Boots, Try, Reply
  <1>5. CASE ResumeActivation
    BY <1>5 DEF ResumeActivation, Goto
  <1>6. CASE ResumeRollback
    BY <1>6 DEF ResumeRollback, Checked, Boots, Goto
  <1>7. CASE ResumeChange
    BY <1>7 DEF ResumeChange, Checked, Boots, Goto
  <1>8. CASE Begin
    BY <1>8 DEF Begin, Checked, Boots, Save, Try, Goto, Reply
  <1>9. CASE WriteHTTP
    <2>1. vhost' \in Vhosts
      BY <1>9, VhostWritten
    <2> QED BY <2>1, <1>9 DEF WriteHTTP, WriteVhost, Try, GiveUp, Goto, Reply
  <1>10. CASE WriteTLS
    <2>1. vhost' \in Vhosts
      BY <1>10, VhostWritten
    <2> QED BY <2>1, <1>10 DEF WriteTLS, WriteVhost, Try, GiveUp, Goto, Reply
  <1>11. CASE Reload
    BY <1>11 DEF Reload, AfterReload, Wanted, Active, Maintenance, Renamed, Try, GiveUp, Goto, Reply
  <1>12. CASE Export
    <2>1. mem' \in Journal /\ journal' \in Journal
      BY <1>12, JournalMarked DEF Export, Save, Try
    <2> QED BY <2>1, <1>12 DEF Export, Save, Try, Goto
  <1>13. CASE MarkStarted
    <2>1. mem' \in Journal /\ journal' \in Journal
      BY <1>13, JournalMarked DEF MarkStarted, Save, Try
    <2> QED BY <2>1, <1>13 DEF MarkStarted, Save, Try, Goto
  <1>14. CASE Rewrite
    BY <1>14 DEF Rewrite, Try, Goto
  <1>15. CASE Check
    BY <1>15 DEF Check, Try, Goto
  <1>16. CASE MarkActivating
    BY <1>16 DEF MarkActivating, Mark, Save, Try, Goto, Reply
  <1>17. CASE MarkComplete
    BY <1>17 DEF MarkComplete, Mark, Save, Try, Reply
  <1>18. CASE RecordRollback
    BY <1>18 DEF RecordRollback, AfterIntent, Save, Try, Goto, Reply
  <1>19. CASE Import
    BY <1>19 DEF Import, Try, Goto, Reply
  <1>20. CASE MarkRestoring
    BY <1>20 DEF MarkRestoring, Mark, Save, Try, Goto, Reply
  <1>21. CASE MarkRestored
    BY <1>21 DEF MarkRestored, Mark, Save, Try, Reply
  <1>22. CASE Deliver
    BY <1>22 DEF Deliver, Try
  <1>23. CASE StopBroker
    BY <1>23 DEF StopBroker, Try, Goto
  <1>24. CASE NginxReload
    BY <1>24 DEF NginxReload
  <1>25. CASE Visit
    BY <1>25 DEF Visit
  <1>26. CASE Write
    <2>1. /\ inside' \in Nat /\ accepted' \in Nat /\ late' \in Nat
          /\ inside' + accepted' + late' <= MaxWrites
      BY <1>26 DEF Write, Writer
    <2>2. db' \in Database
      <3>1. CASE Serving # None
        <4>1. db' = [db EXCEPT !.writes = @ + 1] /\ db.writes + 1 <= MaxWrites
          BY <1>26, <2>1, <3>1 DEF Write, JournalTellsHost
        <4> QED BY <4>1
      <3>2. CASE Serving = None
        <4>1. db' \in {db, [db EXCEPT !.late = @ + 1]} /\ db.late + 1 <= MaxWrites
          BY <1>26, <2>1, <3>2 DEF Write, JournalTellsHost
        <4> QED BY <4>1
      <3> QED BY <3>1, <3>2
    <2> QED BY <2>1, <2>2, <1>26 DEF Write
  <1>27. CASE UNCHANGED vars
    BY <1>27
  <1> QED BY <1>1, <1>2, <1>3, <1>4, <1>5, <1>6, <1>7, <1>8, <1>9, <1>10, <1>11, <1>12, <1>13, <1>14, <1>15, <1>16, <1>17, <1>18, <1>19, <1>20, <1>21, <1>22, <1>23, <1>24, <1>25, <1>26, <1>27 DEF Next, CallStep

\* Whatever a step does to the host, the journal still tells it.
LEMMA HostKept ==
  ASSUME TypeOK, JournalTellsHost, CallKnowsJournal, AnswersAreSettled, [Next]_vars
  PROVE  JournalTellsHost'
  <1> USE BoundsAssumption, NamesAssumption DEF TypeOK, Journal, States, Vhosts, Urls, Database, Steps, Replies, vars, disk, world, visits, call, JournalTellsHost, CallKnowsJournal, AnswersAreSettled, Paused, Recoverable, Active, Renamed, Serving
  <1>1. CASE Call
    BY <1>1 DEF Call
  <1>2. CASE RefuseCall
    BY <1>2 DEF RefuseCall, Try, Reply
  <1>3. CASE AnswerAgain
    BY <1>3 DEF AnswerAgain, Reply
  <1>4. CASE PreflightFails
    BY <1>4 DEF PreflightFails, PreflightReply, Boots, Try, Reply
  <1>5. CASE ResumeActivation
    BY <1>5 DEF ResumeActivation, Goto
  <1>6. CASE ResumeRollback
    BY <1>6 DEF ResumeRollback, Checked, Boots, Goto
  <1>7. CASE ResumeChange
    BY <1>7 DEF ResumeChange, Checked, Boots, Goto
  <1>8. CASE Begin
    BY <1>8 DEF Begin, Checked, Boots, Save, Try, Goto, Reply
  <1>9. CASE WriteHTTP
    BY <1>9 DEF WriteHTTP, WriteVhost, Wanted, Active, Maintenance, Renamed, Try, GiveUp, Goto, Reply
  <1>10. CASE WriteTLS
    BY <1>10 DEF WriteTLS, WriteVhost, Wanted, Active, Maintenance, Renamed, Try, GiveUp, Goto, Reply
  <1>11. CASE Reload
    BY <1>11 DEF Reload, AfterReload, Wanted, Active, Maintenance, Renamed, Try, GiveUp, Goto, Reply
  <1>12. CASE Export
    <2>1. CASE snapshot' = db /\ Save([mem EXCEPT !.ready = TRUE], Goto("mark_started"), Goto("rollback"))
      <3>1. setup.wordPress /\ Paused /\ db \in [url : {"old"}, writes : {accepted}, late : 0..late]
        BY <1>12 DEF Export
      <3>2. snapshot' \in [url : {"old"}, writes : {accepted'}, late : 0..late']
        BY <1>12, <2>1, <3>1 DEF Export
      <3>3. Recoverable'
        BY <1>12, <3>1, <3>2 DEF Export
      <3> QED BY <1>12, <2>1, <3>2, <3>3 DEF Export, Save, Try, Goto
    <2>2. CASE UNCHANGED <<journal, mem>> /\ snapshot' \in {snapshot, db} /\ Goto("rollback")
      BY <1>12, <2>2 DEF Export, Goto
    <2> QED BY <1>12, <2>1, <2>2 DEF Export, Try
  <1>13. CASE MarkStarted
    BY <1>13 DEF MarkStarted, Save, Try, Goto
  <1>14. CASE Rewrite
    BY <1>14 DEF Rewrite, Try, Goto
  <1>15. CASE Check
    BY <1>15 DEF Check, Try, Goto
  <1>16. CASE MarkActivating
    BY <1>16 DEF MarkActivating, Mark, Save, Try, Goto, Reply
  <1>17. CASE MarkComplete
    BY <1>17 DEF MarkComplete, Mark, Save, Try, Reply
  <1>18. CASE RecordRollback
    BY <1>18 DEF RecordRollback, AfterIntent, Save, Try, Goto, Reply
  <1>19. CASE Import
    BY <1>19 DEF Import, Try, Goto, Reply
  <1>20. CASE MarkRestoring
    BY <1>20 DEF MarkRestoring, Mark, Save, Try, Goto, Reply
  <1>21. CASE MarkRestored
    BY <1>21 DEF MarkRestored, Mark, Save, Try, Reply
  <1>22. CASE Deliver
    BY <1>22 DEF Deliver, Try
  <1>23. CASE StopBroker
    BY <1>23 DEF StopBroker, Try, Goto
  <1>24. CASE NginxReload
    BY <1>24 DEF NginxReload
  <1>25. CASE Visit
    BY <1>25 DEF Visit
  <1>26. CASE Write
    BY <1>26 DEF Write, Writer
  <1>27. CASE UNCHANGED vars
    BY <1>27
  <1> QED BY <1>1, <1>2, <1>3, <1>4, <1>5, <1>6, <1>7, <1>8, <1>9, <1>10, <1>11, <1>12, <1>13, <1>14, <1>15, <1>16, <1>17, <1>18, <1>19, <1>20, <1>21, <1>22, <1>23, <1>24, <1>25, <1>26, <1>27 DEF Next, CallStep

\* A call goes on from where the journal says it is.
LEMMA CallKept ==
  ASSUME TypeOK, JournalTellsHost, CallKnowsJournal, AnswersAreSettled, [Next]_vars
  PROVE  CallKnowsJournal'
  <1> USE BoundsAssumption, NamesAssumption DEF TypeOK, Journal, States, Vhosts, Urls, Database, Steps, Replies, vars, disk, world, visits, call, JournalTellsHost, CallKnowsJournal, AnswersAreSettled, Paused, Recoverable, Active, Renamed, Maintenance, Wanted, Serving
  <1>1. CASE Call
    BY <1>1 DEF Call
  <1>2. CASE RefuseCall
    BY <1>2 DEF RefuseCall, Try, Reply
  <1>3. CASE AnswerAgain
    BY <1>3 DEF AnswerAgain, Reply
  <1>4. CASE PreflightFails
    BY <1>4 DEF PreflightFails, PreflightReply, Boots, Try, Reply
  <1>5. CASE ResumeActivation
    BY <1>5 DEF ResumeActivation, Goto
  <1>6. CASE ResumeRollback
    BY <1>6 DEF ResumeRollback, Checked, Boots, Goto
  <1>7. CASE ResumeChange
    BY <1>7 DEF ResumeChange, Checked, Boots, Goto
  <1>8. CASE Begin
    BY <1>8 DEF Begin, Checked, Boots, Save, Try, Goto, Reply
  <1>9. CASE WriteHTTP
    BY <1>9 DEF WriteHTTP, WriteVhost, Wanted, Active, Maintenance, Renamed, Try, GiveUp, Goto, Reply
  <1>10. CASE WriteTLS
    BY <1>10 DEF WriteTLS, WriteVhost, Wanted, Active, Maintenance, Renamed, Try, GiveUp, Goto, Reply
  <1>11. CASE Reload
    BY <1>11 DEF Reload, AfterReload, Wanted, Active, Maintenance, Renamed, Try, GiveUp, Goto, Reply
  <1>12. CASE Export
    <2>1. CASE snapshot' = db /\ Save([mem EXCEPT !.ready = TRUE], Goto("mark_started"), Goto("rollback"))
      <3>1. setup.wordPress /\ Paused /\ db \in [url : {"old"}, writes : {accepted}, late : 0..late]
        BY <1>12 DEF Export
      <3>2. snapshot' \in [url : {"old"}, writes : {accepted'}, late : 0..late']
        BY <1>12, <2>1, <3>1 DEF Export
      <3>3. Recoverable'
        BY <1>12, <3>1, <3>2 DEF Export
      <3> QED BY <1>12, <2>1, <3>2, <3>3 DEF Export, Save, Try, Goto
    <2>2. CASE UNCHANGED <<journal, mem>> /\ snapshot' \in {snapshot, db} /\ Goto("rollback")
      BY <1>12, <2>2 DEF Export, Goto
    <2> QED BY <1>12, <2>1, <2>2 DEF Export, Try
  <1>13. CASE MarkStarted
    BY <1>13 DEF MarkStarted, Save, Try, Goto
  <1>14. CASE Rewrite
    BY <1>14 DEF Rewrite, Try, Goto
  <1>15. CASE Check
    BY <1>15 DEF Check, Try, Goto
  <1>16. CASE MarkActivating
    BY <1>16 DEF MarkActivating, Mark, Save, Try, Goto, Reply
  <1>17. CASE MarkComplete
    BY <1>17 DEF MarkComplete, Mark, Save, Try, Reply
  <1>18. CASE RecordRollback
    BY <1>18 DEF RecordRollback, AfterIntent, Save, Try, Goto, Reply
  <1>19. CASE Import
    BY <1>19 DEF Import, Try, Goto, Reply
  <1>20. CASE MarkRestoring
    BY <1>20 DEF MarkRestoring, Mark, Save, Try, Goto, Reply
  <1>21. CASE MarkRestored
    BY <1>21 DEF MarkRestored, Mark, Save, Try, Reply
  <1>22. CASE Deliver
    BY <1>22 DEF Deliver, Try
  <1>23. CASE StopBroker
    BY <1>23 DEF StopBroker, Try, Goto
  <1>24. CASE NginxReload
    BY <1>24 DEF NginxReload
  <1>25. CASE Visit
    BY <1>25 DEF Visit
  <1>26. CASE Write
    BY <1>26 DEF Write, Writer
  <1>27. CASE UNCHANGED vars
    BY <1>27
  <1> QED BY <1>1, <1>2, <1>3, <1>4, <1>5, <1>6, <1>7, <1>8, <1>9, <1>10, <1>11, <1>12, <1>13, <1>14, <1>15, <1>16, <1>17, <1>18, <1>19, <1>20, <1>21, <1>22, <1>23, <1>24, <1>25, <1>26, <1>27 DEF Next, CallStep

\* Answers stay true.
LEMMA AnswersKept ==
  ASSUME TypeOK, JournalTellsHost, CallKnowsJournal, AnswersAreSettled, [Next]_vars
  PROVE  AnswersAreSettled'
  <1> USE BoundsAssumption, NamesAssumption DEF TypeOK, Journal, States, Vhosts, Urls, Database, Steps, Replies, vars, disk, world, visits, call, JournalTellsHost, CallKnowsJournal, AnswersAreSettled
  <1>1. CASE Call
    BY <1>1 DEF Call
  <1>2. CASE RefuseCall
    BY <1>2 DEF RefuseCall, Try, Reply
  <1>3. CASE AnswerAgain
    BY <1>3 DEF AnswerAgain, Reply
  <1>4. CASE PreflightFails
    BY <1>4 DEF PreflightFails, PreflightReply, Boots, Try, Reply
  <1>5. CASE ResumeActivation
    BY <1>5 DEF ResumeActivation, Goto
  <1>6. CASE ResumeRollback
    BY <1>6 DEF ResumeRollback, Checked, Boots, Goto
  <1>7. CASE ResumeChange
    BY <1>7 DEF ResumeChange, Checked, Boots, Goto
  <1>8. CASE Begin
    BY <1>8 DEF Begin, Checked, Boots, Save, Try, Goto, Reply
  <1>9. CASE WriteHTTP
    BY <1>9 DEF WriteHTTP, WriteVhost, Wanted, Active, Maintenance, Renamed, Try, GiveUp, Goto, Reply
  <1>10. CASE WriteTLS
    BY <1>10 DEF WriteTLS, WriteVhost, Wanted, Active, Maintenance, Renamed, Try, GiveUp, Goto, Reply
  <1>11. CASE Reload
    BY <1>11 DEF Reload, AfterReload, Wanted, Active, Maintenance, Renamed, Try, GiveUp, Goto, Reply
  <1>12. CASE Export
    BY <1>12 DEF Export, Save, Try, Goto
  <1>13. CASE MarkStarted
    BY <1>13 DEF MarkStarted, Save, Try, Goto
  <1>14. CASE Rewrite
    BY <1>14 DEF Rewrite, Try, Goto
  <1>15. CASE Check
    BY <1>15 DEF Check, Try, Goto
  <1>16. CASE MarkActivating
    BY <1>16 DEF MarkActivating, Mark, Save, Try, Goto, Reply
  <1>17. CASE MarkComplete
    BY <1>17 DEF MarkComplete, Mark, Save, Try, Reply
  <1>18. CASE RecordRollback
    BY <1>18 DEF RecordRollback, AfterIntent, Save, Try, Goto, Reply
  <1>19. CASE Import
    BY <1>19 DEF Import, Try, Goto, Reply
  <1>20. CASE MarkRestoring
    BY <1>20 DEF MarkRestoring, Mark, Save, Try, Goto, Reply
  <1>21. CASE MarkRestored
    BY <1>21 DEF MarkRestored, Mark, Save, Try, Reply
  <1>22. CASE Deliver
    BY <1>22 DEF Deliver, Try
  <1>23. CASE StopBroker
    BY <1>23 DEF StopBroker, Try, Goto
  <1>24. CASE NginxReload
    BY <1>24 DEF NginxReload
  <1>25. CASE Visit
    BY <1>25 DEF Visit
  <1>26. CASE Write
    BY <1>26 DEF Write, Writer
  <1>27. CASE UNCHANGED vars
    BY <1>27
  <1> QED BY <1>1, <1>2, <1>3, <1>4, <1>5, <1>6, <1>7, <1>8, <1>9, <1>10, <1>11, <1>12, <1>13, <1>14, <1>15, <1>16, <1>17, <1>18, <1>19, <1>20, <1>21, <1>22, <1>23, <1>24, <1>25, <1>26, <1>27 DEF Next, CallStep

\* The journal moves forward during a call.
LEMMA ForwardKept ==
  ASSUME SwitchInv, [Next]_vars
  PROVE  CallsMoveForward'
  <1> USE BoundsAssumption, NamesAssumption DEF TypeOK, Journal, States, Vhosts, Urls, Database, Steps, Replies, vars, disk, world, visits, call, SwitchInv, JournalTellsHost, CallKnowsJournal, CallsMoveForward, AnswersAreSettled, JournalView, Later, Result, HostView, Serving, Up, Off, Active, Renamed
  <1>1. CASE Call
    <2>1. /\ pc' # "idle" => JournalView \in Later(JournalView)
          /\ JournalView \in {"none", "restored"} => HostView = Up(Old)
          /\ JournalView = "complete" => HostView = Up(New)
      BY CallsStartStill
    <2>2. began'.host = HostView /\ began'.journal = JournalView /\ JournalView' = JournalView
      BY <1>1 DEF Call
    <2>3. HostView.files
      BY DEF HostView, Up, Off
    <2> QED BY <2>1, <2>2, <2>3 DEF CallsMoveForward
  <1>2. CASE RefuseCall
    BY <1>2 DEF RefuseCall, Try, Reply
  <1>3. CASE AnswerAgain
    BY <1>3 DEF AnswerAgain, Reply
  <1>4. CASE PreflightFails
    BY <1>4 DEF PreflightFails, PreflightReply, Boots, Try, Reply
  <1>5. CASE ResumeActivation
    BY <1>5 DEF ResumeActivation, Goto
  <1>6. CASE ResumeRollback
    BY <1>6 DEF ResumeRollback, Checked, Boots, Goto
  <1>7. CASE ResumeChange
    BY <1>7 DEF ResumeChange, Checked, Boots, Goto
  <1>8. CASE Begin
    BY <1>8 DEF Begin, Checked, Boots, Save, Try, Goto, Reply
  <1>9. CASE WriteHTTP
    BY <1>9 DEF WriteHTTP, WriteVhost, Wanted, Active, Maintenance, Renamed, Try, GiveUp, Goto, Reply
  <1>10. CASE WriteTLS
    BY <1>10 DEF WriteTLS, WriteVhost, Wanted, Active, Maintenance, Renamed, Try, GiveUp, Goto, Reply
  <1>11. CASE Reload
    BY <1>11 DEF Reload, AfterReload, Wanted, Active, Maintenance, Renamed, Try, GiveUp, Goto, Reply
  <1>12. CASE Export
    BY <1>12 DEF Export, Save, Try, Goto
  <1>13. CASE MarkStarted
    BY <1>13 DEF MarkStarted, Save, Try, Goto
  <1>14. CASE Rewrite
    BY <1>14 DEF Rewrite, Try, Goto
  <1>15. CASE Check
    BY <1>15 DEF Check, Try, Goto
  <1>16. CASE MarkActivating
    BY <1>16 DEF MarkActivating, Mark, Save, Try, Goto, Reply
  <1>17. CASE MarkComplete
    BY <1>17 DEF MarkComplete, Mark, Save, Try, Reply
  <1>18. CASE RecordRollback
    BY <1>18 DEF RecordRollback, AfterIntent, Save, Try, Goto, Reply
  <1>19. CASE Import
    BY <1>19 DEF Import, Try, Goto, Reply
  <1>20. CASE MarkRestoring
    BY <1>20 DEF MarkRestoring, Mark, Save, Try, Goto, Reply
  <1>21. CASE MarkRestored
    BY <1>21 DEF MarkRestored, Mark, Save, Try, Reply
  <1>22. CASE Deliver
    BY <1>22 DEF Deliver, Try
  <1>23. CASE StopBroker
    BY <1>23 DEF StopBroker, Try, Goto
  <1>24. CASE NginxReload
    BY <1>24 DEF NginxReload
  <1>25. CASE Visit
    BY <1>25 DEF Visit
  <1>26. CASE Write
    BY <1>26 DEF Write, Writer
  <1>27. CASE UNCHANGED vars
    BY <1>27
  <1> QED BY <1>1, <1>2, <1>3, <1>4, <1>5, <1>6, <1>7, <1>8, <1>9, <1>10, <1>11, <1>12, <1>13, <1>14, <1>15, <1>16, <1>17, <1>18, <1>19, <1>20, <1>21, <1>22, <1>23, <1>24, <1>25, <1>26, <1>27 DEF Next, CallStep

\* The initial states satisfy the invariant.
LEMMA InitIsSafe ==
  ASSUME Init
  PROVE  SwitchInv
  <1> USE BoundsAssumption, NamesAssumption DEF Init
  <1>1. TypeOK
    BY DEF TypeOK, Journal, States, Vhosts, Urls, Database, Steps, Replies, Active
  <1>2. JournalTellsHost
    BY DEF JournalTellsHost, Active
  <1>3. CallKnowsJournal /\ AnswersAreSettled
    BY DEF CallKnowsJournal, AnswersAreSettled
  <1>4. Serving = Old
    BY DEF Serving, Active
  <1>5. CallsMoveForward
    BY <1>4 DEF CallsMoveForward, HostView, Result, Up
  <1> QED BY <1>1, <1>2, <1>3, <1>5 DEF SwitchInv

\* The invariant is inductive.
LEMMA StepIsSafe == SwitchInv /\ [Next]_vars => SwitchInv'
  <1> SUFFICES ASSUME SwitchInv, [Next]_vars PROVE SwitchInv'
    OBVIOUS
  <1>1. TypeOK'
    BY TypesKept DEF SwitchInv, JournalTellsHost
  <1>2. JournalTellsHost' /\ CallKnowsJournal' /\ AnswersAreSettled'
    BY HostKept, CallKept, AnswersKept DEF SwitchInv
  <1>3. CallsMoveForward'
    BY ForwardKept
  <1> QED BY <1>1, <1>2, <1>3 DEF SwitchInv

\* The recovery journal of ChangeDomain always says what state the host is in,
\* wherever a call failed or was interrupted and whoever reloaded nginx.
THEOREM JournalIsTrue == Spec => []SwitchInv
  BY InitIsSafe, StepIsSafe, PTL DEF Spec

\* The variables of the domain change never leave their types.
THEOREM TypeCorrect == Spec => []TypeOK
  <1>1. SwitchInv => TypeOK
    BY DEF SwitchInv
  <1> QED BY JournalIsTrue, <1>1, PTL

\* What the journal tells of the host is enough for the visitors.
LEMMA InvariantMeetsSite == SwitchInv => VisitorsMeetTheirSite
  <1> SUFFICES ASSUME SwitchInv PROVE VisitorsMeetTheirSite
    OBVIOUS
  <1>1. db.writes = accepted
    BY DEF SwitchInv, JournalTellsHost
  <1>2. journal.state \in States
    BY DEF SwitchInv, TypeOK, Journal
  <1>3. ASSUME setup.wordPress, Serving = Old
        PROVE  db.url = "old"
    BY <1>2, <1>3, NamesAssumption
       DEF SwitchInv, JournalTellsHost, Serving, States, Recoverable, Paused
  <1>4. ASSUME setup.wordPress, Serving = New
        PROVE  db.url = "new"
    BY <1>4, NamesAssumption DEF SwitchInv, JournalTellsHost, Serving
  <1>5. Serving \in {Old, New, None}
    BY DEF Serving
  <1>6. ~journal.started => db.late = late
    BY DEF SwitchInv, JournalTellsHost
  <1> QED BY <1>1, <1>3, <1>4, <1>5, <1>6, NamesAssumption DEF VisitorsMeetTheirSite

\* Whenever visitors are let in, the database has the addresses of the name
\* they came by and every write made while the gate was open; what is written
\* behind the gate is kept until the rewrite is journaled.
THEOREM VisitorsAlwaysMeetTheirSite == Spec => []VisitorsMeetTheirSite
  BY JournalIsTrue, InvariantMeetsSite, PTL

\* Where a call may end, by the journal it began with and the one it left.
LEMMA InvariantMatchesSummary == SwitchInv => CallsMatchTheirSummary
  <1> SUFFICES ASSUME SwitchInv, pc = "answered"
               PROVE  Result(HostView, JournalView, reply)
                        \in DomainChangeResults(began.host, began.journal, Old, New)
    BY DEF CallsMatchTheirSummary
  <1> DEFINE h == began.host
             n == began.journal
             jv == JournalView
             hv == HostView
  <1>1. jv \in {"none", "changing", "activating", "complete", "rollback", "restored"}
    BY DEF SwitchInv, TypeOK, Journal, States, JournalView
  <1>2. jv \in Later(n) /\ h.files
    BY DEF SwitchInv, CallsMoveForward
  <1>3. n \in {"none", "changing", "activating", "complete", "rollback", "restored"}
    BY <1>1, <1>2 DEF Later
  <1>4. reply \in {"ok", "fail", "restored"}
    BY DEF SwitchInv, TypeOK, Replies, AnswersAreSettled
  <1>5. /\ reply = "ok" => jv = "complete"
        /\ reply = "restored" => jv \in {"none", "restored"}
    BY DEF SwitchInv, AnswersAreSettled, JournalView
  <1>6. /\ jv \in {"none", "restored"} => hv = Up(Old)
        /\ jv = "complete" => hv = Up(New)
    BY CallsStartStill
  <1>7. jv = "activating" => hv \in {Off(Old), Up(New)}
    BY DEF SwitchInv, JournalTellsHost, JournalView, HostView, Serving
  <1>8. jv \in {"changing", "rollback"} => hv \in {Off(Old), Up(Old)}
    BY DEF SwitchInv, JournalTellsHost, JournalView, HostView, Serving
  <1>9. n \in {"none", "restored"} => h = Up(Old)
    BY DEF SwitchInv, CallsMoveForward
  <1>10. n = "complete" => h = Up(New)
    BY DEF SwitchInv, CallsMoveForward
  <1> HIDE DEF jv, hv, h, n
  <1>11. Result(hv, jv, reply) \in DomainChangeResults(h, n, Old, New)
    <2> DEFINE Open == IF n \in {"none", "changing"} THEN {"changing", "activating", "rollback"} ELSE {n}
    <2>1. CASE n \in {"complete", "restored"}
      BY <2>1, <1>2, <1>4, <1>5, <1>6, <1>9, <1>10 DEF DomainChangeResults, Later
    <2>2. CASE n \notin {"complete", "restored"}
      <3>1. DomainChangeResults(h, n, Old, New) = DomainChangeSteps(h, n, Old, New)
        BY <2>2, <1>2 DEF DomainChangeResults
      <3>2. CASE jv = "none"
        <4>1. n = "none" /\ hv = h /\ reply \in {"fail", "restored"}
          BY <3>2, <1>2, <1>3, <1>4, <1>5, <1>6, <1>9 DEF Later
        <4>2. Result(hv, jv, reply) \in {Result(h, n, "fail"), Result(h, n, "restored")}
          BY <3>2, <4>1
        <4> QED BY <3>1, <4>1, <4>2 DEF DomainChangeSteps, PreflightResults
      <3>3. CASE jv \in {"changing", "activating", "rollback"}
        <4>1. jv \in Open /\ reply = "fail"
          BY <3>3, <1>2, <1>3, <1>4, <1>5 DEF Later
        <4>2. hv \in Traffic(jv, Old, New)
          BY <3>3, <1>7, <1>8 DEF Traffic
        <4> HIDE DEF Open
        <4>3. Result(hv, jv, reply)
                \in UNION {{Result(t, m, "fail") : t \in Traffic(m, Old, New)} : m \in Open}
          BY <4>1, <4>2
        <4> QED BY <3>1, <4>3, Zenon DEF DomainChangeSteps, Open
      <3>4. CASE jv = "complete"
        <4>1. "activating" \in Open /\ reply \in {"ok", "fail"} /\ hv = Up(New)
          BY <3>4, <2>2, <1>2, <1>3, <1>4, <1>5, <1>6 DEF Later
        <4>2. Result(hv, jv, reply) \in {Result(Up(New), "complete", r) : r \in {"ok", "fail"}}
          BY <3>4, <4>1
        <4> QED BY <3>1, <4>1, <4>2, Zenon DEF DomainChangeSteps
      <3>5. CASE jv = "restored"
        <4>1. "rollback" \in Open /\ reply \in {"restored", "fail"} /\ hv = Up(Old)
          BY <3>5, <2>2, <1>2, <1>3, <1>4, <1>5, <1>6 DEF Later
        <4>2. Result(hv, jv, reply) \in {Result(Up(Old), "restored", r) : r \in {"restored", "fail"}}
          BY <3>5, <4>1
        <4> QED BY <3>1, <4>1, <4>2, Zenon DEF DomainChangeSteps
      <3> QED BY <1>1, <3>2, <3>3, <3>4, <3>5
    <2> QED BY <2>1, <2>2
  <1> QED BY <1>11 DEF jv, hv, h, n

\* Every call of ChangeDomain, complete or broken off, ends in one of the
\* results from which SiteLifecycle lets the broker choose.
THEOREM CallsAreSummarised == Spec => []CallsMatchTheirSummary
  BY JournalIsTrue, InvariantMatchesSummary, PTL

(***************************************************************************)
(* The change implements DomainSwitch.                                     *)
(***************************************************************************)

\* A change that has not begun serves the old name.
LEMMA InitIsOld == Init => Switch!Init
  BY DEF Init, Switch!Init, Serving, Active, Decision

\* A step that leaves nginx, the decision and the panel alone is not seen.
LEMMA Unseen ==
  ASSUME UNCHANGED <<nginx, told>>, db'.writes = db.writes, Decision' = Decision
  PROVE  UNCHANGED Switch!vars
  BY DEF Switch!vars, Serving

\* Every step of the call is a step of DomainSwitch, or none of its business.
LEMMA StepIsSwitchStep == SwitchInv /\ SwitchInv' /\ [Next]_vars => [Switch!Next]_(Switch!vars)
  <1> SUFFICES ASSUME SwitchInv, SwitchInv', [Next]_vars
               PROVE  [Switch!Next]_(Switch!vars)
    OBVIOUS
  <1>u. SUFFICES ASSUME ~UNCHANGED Switch!vars PROVE Switch!Next
    OBVIOUS
  <1>w. db.writes = accepted /\ db'.writes = accepted'
    BY DEF SwitchInv, JournalTellsHost
  <1> USE NamesAssumption DEF vars, disk, world, visits, call
  <1>1. CASE Call
    <2>1. UNCHANGED <<nginx, told>> /\ db'.writes = db.writes
      BY <1>1, <1>w DEF Call
    <2>2. Decision' = Decision
      BY <1>1 DEF Call, Decision, SwitchInv, CallKnowsJournal, TypeOK, Journal
    <2> QED BY <2>1, <2>2, <1>u, Unseen
  <1>2. CASE RefuseCall
    <2>1. UNCHANGED <<nginx, told>> /\ db'.writes = db.writes
      BY <1>2, <1>w DEF RefuseCall, Try, Reply
    <2>2. Decision' = Decision
      BY <1>2 DEF RefuseCall, Try, Reply, Decision, SwitchInv, CallKnowsJournal, TypeOK, Journal
    <2> QED BY <2>1, <2>2, <1>u, Unseen
  <1>3. CASE AnswerAgain
    <2>1. UNCHANGED <<nginx, told>> /\ db'.writes = db.writes
      BY <1>3, <1>w DEF AnswerAgain, Reply
    <2>2. Decision' = Decision
      BY <1>3 DEF AnswerAgain, Reply, Decision, SwitchInv, CallKnowsJournal, TypeOK, Journal
    <2> QED BY <2>1, <2>2, <1>u, Unseen
  <1>4. CASE PreflightFails
    <2>1. UNCHANGED <<nginx, told>> /\ db'.writes = db.writes
      BY <1>4, <1>w DEF PreflightFails, PreflightReply, Boots, Try, Reply
    <2>2. Decision' = Decision
      BY <1>4 DEF PreflightFails, PreflightReply, Boots, Try, Reply, Decision, SwitchInv, CallKnowsJournal, TypeOK, Journal
    <2> QED BY <2>1, <2>2, <1>u, Unseen
  <1>5. CASE ResumeActivation
    <2>1. UNCHANGED <<nginx, told>> /\ db'.writes = db.writes
      BY <1>5, <1>w DEF ResumeActivation, Goto
    <2>2. Decision' = Decision
      BY <1>5 DEF ResumeActivation, Goto, Decision, SwitchInv, CallKnowsJournal, TypeOK, Journal
    <2> QED BY <2>1, <2>2, <1>u, Unseen
  <1>6. CASE ResumeRollback
    <2>1. UNCHANGED <<nginx, told>> /\ db'.writes = db.writes
      BY <1>6, <1>w DEF ResumeRollback, Checked, Boots, Goto
    <2>2. Decision' = Decision
      BY <1>6 DEF ResumeRollback, Checked, Boots, Goto, Decision, SwitchInv, CallKnowsJournal, TypeOK, Journal
    <2> QED BY <2>1, <2>2, <1>u, Unseen
  <1>7. CASE ResumeChange
    <2>1. UNCHANGED <<nginx, told>> /\ db'.writes = db.writes
      BY <1>7, <1>w DEF ResumeChange, Checked, Boots, Goto
    <2>2. Decision' = Decision
      BY <1>7 DEF ResumeChange, Checked, Boots, Goto, Decision, SwitchInv, CallKnowsJournal, TypeOK, Journal
    <2> QED BY <2>1, <2>2, <1>u, Unseen
  <1>8. CASE Begin
    <2>1. UNCHANGED <<nginx, told>> /\ db'.writes = db.writes
      BY <1>8, <1>w DEF Begin, Checked, Boots, Save, Try, Goto, Reply
    <2>2. Decision' = Decision
      BY <1>8 DEF Begin, Checked, Boots, Save, Try, Goto, Reply, Decision, SwitchInv, CallKnowsJournal, TypeOK, Journal
    <2> QED BY <2>1, <2>2, <1>u, Unseen
  <1>9. CASE WriteHTTP
    <2>1. UNCHANGED <<nginx, told>> /\ db'.writes = db.writes
      BY <1>9, <1>w DEF WriteHTTP, WriteVhost, Wanted, Active, Maintenance, Renamed, Try, GiveUp, Goto, Reply
    <2>2. Decision' = Decision
      BY <1>9 DEF WriteHTTP, WriteVhost, Wanted, Active, Maintenance, Renamed, Try, GiveUp, Goto, Reply, Decision, SwitchInv, CallKnowsJournal, TypeOK, Journal
    <2> QED BY <2>1, <2>2, <1>u, Unseen
  <1>10. CASE WriteTLS
    <2>1. UNCHANGED <<nginx, told>> /\ db'.writes = db.writes
      BY <1>10, <1>w DEF WriteTLS, WriteVhost, Wanted, Active, Maintenance, Renamed, Try, GiveUp, Goto, Reply
    <2>2. Decision' = Decision
      BY <1>10 DEF WriteTLS, WriteVhost, Wanted, Active, Maintenance, Renamed, Try, GiveUp, Goto, Reply, Decision, SwitchInv, CallKnowsJournal, TypeOK, Journal
    <2> QED BY <2>1, <2>2, <1>u, Unseen
  <1>11. CASE Reload
    <2>1. /\ Serving \in {Old, New, None} /\ Serving' \in {Old, New, None}
          /\ Decision' = Decision /\ told' = told /\ db'.writes = db.writes
      BY <1>11 DEF Reload, AfterReload, Wanted, Active, Maintenance, Renamed, Try, GiveUp, Goto, Reply, Serving, Decision
    <2>2. told # None => Serving' = Serving
      BY <1>11 DEF Reload, AfterReload, Wanted, Active, Maintenance, Renamed, Try, GiveUp, Goto, Reply, SwitchInv, JournalTellsHost, AnswersAreSettled, Serving, Active, Renamed, TypeOK
    <2>3. Decision = New => Serving' = Serving \/ Serving' = New
      BY <1>11 DEF Reload, AfterReload, Wanted, Active, Maintenance, Renamed, Try, GiveUp, Goto, Reply, SwitchInv, JournalTellsHost, Serving, Decision
    <2>4. Decision # New => Serving' \in {Old, None}
      BY <1>11, <2>1 DEF Reload, AfterReload, Wanted, Active, Maintenance, Renamed, Try, GiveUp, Goto, Reply, SwitchInv, JournalTellsHost, Serving, Decision
    <2> QED BY <2>1, <2>2, <2>3, <2>4, <1>u DEF Switch!Next, Switch!Pause, Switch!Open, Switch!vars
  <1>12. CASE Export
    <2>1. UNCHANGED <<nginx, told>> /\ db'.writes = db.writes
      BY <1>12, <1>w DEF Export, Save, Try, Goto
    <2>2. Decision' = Decision
      BY <1>12 DEF Export, Save, Try, Goto, Decision, SwitchInv, CallKnowsJournal, TypeOK, Journal
    <2> QED BY <2>1, <2>2, <1>u, Unseen
  <1>13. CASE MarkStarted
    <2>1. UNCHANGED <<nginx, told>> /\ db'.writes = db.writes
      BY <1>13, <1>w DEF MarkStarted, Save, Try, Goto
    <2>2. Decision' = Decision
      BY <1>13 DEF MarkStarted, Save, Try, Goto, Decision, SwitchInv, CallKnowsJournal, TypeOK, Journal
    <2> QED BY <2>1, <2>2, <1>u, Unseen
  <1>14. CASE Rewrite
    <2>1. UNCHANGED <<nginx, told>> /\ db'.writes = db.writes
      BY <1>14, <1>w DEF Rewrite, Try, Goto
    <2>2. Decision' = Decision
      BY <1>14 DEF Rewrite, Try, Goto, Decision, SwitchInv, CallKnowsJournal, TypeOK, Journal
    <2> QED BY <2>1, <2>2, <1>u, Unseen
  <1>15. CASE Check
    <2>1. UNCHANGED <<nginx, told>> /\ db'.writes = db.writes
      BY <1>15, <1>w DEF Check, Try, Goto
    <2>2. Decision' = Decision
      BY <1>15 DEF Check, Try, Goto, Decision, SwitchInv, CallKnowsJournal, TypeOK, Journal
    <2> QED BY <2>1, <2>2, <1>u, Unseen
  <1>16. CASE MarkActivating
    <2>1. UNCHANGED <<nginx, told>> /\ db'.writes = db.writes /\ Serving' = Serving
      BY <1>16 DEF MarkActivating, Mark, Save, Try, Goto, Reply, Serving
    <2>2. told = None
      BY <1>16 DEF MarkActivating, Mark, Save, Try, Goto, Reply, SwitchInv, AnswersAreSettled
    <2>3. journal' = journal \/ (Decision = None /\ Decision' = New)
      BY <1>16 DEF MarkActivating, Mark, Save, Try, Goto, Reply, SwitchInv, CallKnowsJournal, TypeOK, Journal, Decision
    <2>4. Serving = None
      BY <1>16 DEF MarkActivating, Mark, Save, Try, Goto, Reply, SwitchInv, CallKnowsJournal, Paused, Serving
    <2>5. journal' = journal => UNCHANGED Switch!vars
      BY <2>1, Unseen DEF Decision
    <2> QED BY <2>1, <2>2, <2>3, <2>4, <2>5, <1>u DEF Switch!Next, Switch!Decide
  <1>17. CASE MarkComplete
    <2>1. UNCHANGED <<nginx, told>> /\ db'.writes = db.writes
      BY <1>17, <1>w DEF MarkComplete, Mark, Save, Try, Reply
    <2>2. Decision' = Decision
      BY <1>17 DEF MarkComplete, Mark, Save, Try, Reply, Decision, SwitchInv, CallKnowsJournal, TypeOK, Journal
    <2> QED BY <2>1, <2>2, <1>u, Unseen
  <1>18. CASE RecordRollback
    <2>1. UNCHANGED <<nginx, told>> /\ db'.writes = db.writes
      BY <1>18, <1>w DEF RecordRollback, AfterIntent, Save, Try, Goto, Reply
    <2>2. Decision' = Decision
      BY <1>18 DEF RecordRollback, AfterIntent, Save, Try, Goto, Reply, Decision, SwitchInv, CallKnowsJournal, TypeOK, Journal
    <2> QED BY <2>1, <2>2, <1>u, Unseen
  <1>19. CASE Import
    <2>1. UNCHANGED <<nginx, told>> /\ db'.writes = db.writes
      BY <1>19, <1>w DEF Import, Try, Goto, Reply
    <2>2. Decision' = Decision
      BY <1>19 DEF Import, Try, Goto, Reply, Decision, SwitchInv, CallKnowsJournal, TypeOK, Journal
    <2> QED BY <2>1, <2>2, <1>u, Unseen
  <1>20. CASE MarkRestoring
    <2>1. UNCHANGED <<nginx, told>> /\ db'.writes = db.writes /\ Serving' = Serving
      BY <1>20 DEF MarkRestoring, Mark, Save, Try, Goto, Reply, Serving
    <2>2. told = None
      BY <1>20 DEF MarkRestoring, Mark, Save, Try, Goto, Reply, SwitchInv, AnswersAreSettled
    <2>3. journal' = journal \/ (Decision = None /\ Decision' = Old)
      BY <1>20 DEF MarkRestoring, Mark, Save, Try, Goto, Reply, SwitchInv, CallKnowsJournal, TypeOK, Journal, Decision
    <2>5. journal' = journal => UNCHANGED Switch!vars
      BY <2>1, Unseen DEF Decision
    <2> QED BY <2>1, <2>2, <2>3, <2>5, <1>u DEF Switch!Next, Switch!Decide
  <1>21. CASE MarkRestored
    <2>1. UNCHANGED <<nginx, told>> /\ db'.writes = db.writes
      BY <1>21, <1>w DEF MarkRestored, Mark, Save, Try, Reply
    <2>2. Decision' = Decision
      BY <1>21 DEF MarkRestored, Mark, Save, Try, Reply, Decision, SwitchInv, CallKnowsJournal, TypeOK, Journal
    <2> QED BY <2>1, <2>2, <1>u, Unseen
  <1>22. CASE Deliver
    <2>1. UNCHANGED <<nginx, journal, db>> /\ Serving' = Serving /\ Decision' = Decision
      BY <1>22 DEF Deliver, Serving, Decision
    <2>2. told' \in {New, Old} \/ told' = told
      BY <1>22 DEF Deliver, Try
    <2>3. told = None
      BY <1>22 DEF Deliver, SwitchInv, AnswersAreSettled
    <2>4. CASE told' = told
      BY <2>1, <2>4, <1>u, Unseen
    <2>5. CASE told' = New /\ told' # told
      <3>1. journal.state = "complete"
        BY <1>22, <2>5 DEF Deliver, Try, SwitchInv, AnswersAreSettled
      <3>2. Serving = New /\ Decision = New
        BY <3>1 DEF SwitchInv, JournalTellsHost, Serving, Renamed, Decision
      <3> QED BY <2>1, <2>3, <2>5, <3>2 DEF Switch!Next, Switch!Tell
    <2>6. CASE told' = Old /\ told' # told
      <3>1. journal.state \in {"none", "restored"}
        BY <1>22, <2>6 DEF Deliver, Try, SwitchInv, AnswersAreSettled
      <3>2. Serving = Old /\ Decision \in {None, Old}
        BY <3>1 DEF SwitchInv, JournalTellsHost, Serving, Active, Decision
      <3> QED BY <2>1, <2>3, <2>6, <3>2 DEF Switch!Next, Switch!Tell
    <2> QED BY <2>2, <2>4, <2>5, <2>6
  <1>23. CASE StopBroker
    <2>1. UNCHANGED <<nginx, told>> /\ db'.writes = db.writes
      BY <1>23, <1>w DEF StopBroker, Try, Goto
    <2>2. Decision' = Decision
      BY <1>23 DEF StopBroker, Try, Goto, Decision, SwitchInv, CallKnowsJournal, TypeOK, Journal
    <2> QED BY <2>1, <2>2, <1>u, Unseen
  <1>24. CASE NginxReload
    <2>1. /\ Serving \in {Old, New, None} /\ Serving' \in {Old, New, None}
          /\ Decision' = Decision /\ told' = told /\ db'.writes = db.writes
      BY <1>24 DEF NginxReload, Serving, Decision
    <2>2. told # None => Serving' = Serving
      BY <1>24 DEF NginxReload, SwitchInv, JournalTellsHost, AnswersAreSettled, Serving, Active, Renamed, TypeOK
    <2>3. Decision = New => Serving' = Serving \/ Serving' = New
      BY <1>24 DEF NginxReload, SwitchInv, JournalTellsHost, Serving, Decision
    <2>4. Decision # New => Serving' \in {Old, None}
      BY <1>24, <2>1 DEF NginxReload, SwitchInv, JournalTellsHost, Serving, Decision
    <2> QED BY <2>1, <2>2, <2>3, <2>4, <1>u DEF Switch!Next, Switch!Pause, Switch!Open, Switch!vars
  <1>25. CASE Visit
    <2>1. UNCHANGED <<nginx, told, db, journal>>
      BY <1>25 DEF Visit
    <2> QED BY <2>1, <1>u, Unseen DEF Decision
  <1>26. CASE Write
    <2>1. Serving' = Serving /\ Decision' = Decision /\ told' = told
      BY <1>26 DEF Write, Serving, Decision
    <2>2. CASE Serving # None
      <3>1. accepted' = accepted + 1 /\ accepted' <= MaxWrites
        BY <1>26, <2>2, BoundsAssumption DEF Write, SwitchInv, TypeOK
      <3>2. db.writes < MaxWrites /\ db'.writes = db.writes + 1
        BY <3>1, <1>w, BoundsAssumption DEF SwitchInv, TypeOK
      <3> QED BY <2>1, <2>2, <3>2 DEF Switch!Next, Switch!Visit
    <2>3. CASE Serving = None
      <3>1. UNCHANGED <<nginx, told, accepted>>
        BY <1>26, <2>3 DEF Write
      <3> QED BY <2>1, <3>1, <1>w, <1>u, Unseen
    <2> QED BY <2>2, <2>3
  <1>27. CASE UNCHANGED vars
    BY <1>27, <1>u, Unseen DEF Decision
  <1> QED BY <1>1, <1>2, <1>3, <1>4, <1>5, <1>6, <1>7, <1>8, <1>9, <1>10, <1>11, <1>12, <1>13, <1>14, <1>15, <1>16, <1>17, <1>18, <1>19, <1>20, <1>21, <1>22, <1>23, <1>24, <1>25, <1>26, <1>27 DEF Next, CallStep

\* ChangeDomain keeps what DomainSwitch promises: the outcome is decided once,
\* traffic follows it, no write made while visitors are let in is lost, and the
\* panel is told the truth.
THEOREM ImplementsSwitch == Spec => SwitchSpec
  <1>1. Spec => Switch!Init
    BY InitIsOld DEF Spec
  <1>2. Spec => [][Switch!Next]_(Switch!vars)
    BY JournalIsTrue, StepIsSwitchStep, PTL DEF Spec
  <1> QED BY <1>1, <1>2 DEF SwitchSpec, Switch!Spec
=============================================================================
