------------------------- MODULE SiteDeletionProofs -------------------------
(***************************************************************************)
(* What a deletion has done when it gets to a step, for any number of      *)
(* failures, stops and lost answers; from that, its safety properties.     *)
(***************************************************************************)
EXTENDS SiteDeletion, TLAPS

\* A deletion record with any of its fields set is one.
LEMMA RecordSet ==
  ASSUME NEW m \in Record, NEW a \in BOOLEAN, NEW d \in BOOLEAN
  PROVE  /\ [m EXCEPT !.state = "removing", !.account = a, !.database = d] \in Record
         /\ [m EXCEPT !.stopped = TRUE] \in Record
         /\ [m EXCEPT !.state = "done"] \in Record
  BY DEF Record

\* A PHP branch that is stopped, asked to reload, or has reloaded is one.
LEMMA BranchSet ==
  ASSUME NEW b \in Branch
  PROVE  /\ [b EXCEPT !.asked = TRUE] \in Branch
         /\ [b EXCEPT !.asked = FALSE] \in Branch
         /\ [b EXCEPT !.running = FALSE] \in Branch
  BY DEF Branch

\* Every step keeps the types.
LEMMA TypesKept ==
  ASSUME TypeOK, [Next]_vars
  PROVE  TypeOK'
  <1> USE BoundsAssumption DEF TypeOK, Record, Branch, Steps, vars, config, live, call
  <1>1. CASE Call
    BY <1>1 DEF Call
  <1>2. CASE StepFails
    BY <1>2 DEF StepFails, Fail, Fault, Reply
  <1>3. CASE AnswerAgain
    BY <1>3 DEF AnswerAgain, Reply
  <1>4. CASE Resume
    BY <1>4 DEF Resume, Goto
  <1>5. CASE Begin
    <2>1. [mem EXCEPT !.state = "removing", !.account = account, !.database = database] \in Record
      BY RecordSet DEF TypeOK
    <2>2. mem' = [mem EXCEPT !.state = "removing", !.account = account, !.database = database] /\ record' = [mem EXCEPT !.state = "removing", !.account = account, !.database = database]
      BY <1>5 DEF Begin, Save
    <2>3. mem' \in Record /\ record' \in Record
      BY <2>1, <2>2
    <2> QED BY <2>3, <1>5 DEF Begin, Save, Fault, Reply
  <1>6. CASE Unlink
    <2>1. link' \in BOOLEAN
      BY <1>6, Zenon DEF Unlink
    <2> QED BY <2>1, <1>6 DEF Unlink, Then, Goto, Fail, Fault, Reply
  <1>7. CASE ReloadNginx
    BY <1>7 DEF ReloadNginx, AfterNginx, Then, Goto, Fail, Fault, Reply
  <1>8. CASE RemovePool
    <2>1. pool' \in BOOLEAN
      BY <1>8, Zenon DEF RemovePool
    <2> QED BY <2>1, <1>8 DEF RemovePool, Then, Goto, Fail, Fault, Reply
  <1>9. CASE ReleaseBranch
    <2>1. [branch EXCEPT !.asked = TRUE] \in Branch /\ [branch EXCEPT !.running = FALSE] \in Branch
      BY BranchSet
    <2>2. /\ listening' = listening \/ listening' = FALSE
          /\ branch' \in {[branch EXCEPT !.asked = TRUE], [branch EXCEPT !.running = FALSE]}
      BY <1>9, Zenon DEF ReleaseBranch
    <2>3. branch' \in Branch
      BY <2>1, <2>2, Zenon
    <2>4. listening' \in BOOLEAN
      BY <2>2, Zenon
    <2> QED BY <2>3, <2>4, <1>9 DEF ReleaseBranch, Then, Goto, Fail, Fault, Reply, Branch
  <1>10. CASE WaitListener
    BY <1>10 DEF WaitListener, Goto
  <1>11. CASE RemoveLaunchers
    <2>1. launchers' \in BOOLEAN
      BY <1>11, Zenon DEF RemoveLaunchers
    <2> QED BY <2>1, <1>11 DEF RemoveLaunchers, Then, Goto, Fail, Fault, Reply
  <1>12. CASE MarkStopped
    <2>1. [mem EXCEPT !.stopped = TRUE] \in Record
      BY RecordSet DEF TypeOK
    <2>2. mem' = [mem EXCEPT !.stopped = TRUE] /\ record' = [mem EXCEPT !.stopped = TRUE]
      BY <1>12 DEF MarkStopped, Save
    <2>3. mem' \in Record /\ record' \in Record
      BY <2>1, <2>2
    <2> QED BY <2>3, <1>12 DEF MarkStopped, Save, Fault, Reply
  <1>13. CASE StopPrograms
    <2>1. procs' \in BOOLEAN
      BY <1>13, Zenon DEF StopPrograms, StopSite
    <2> QED BY <2>1, <1>13 DEF StopPrograms, StopSite, Then, Goto, Fail, Fault, Reply
  <1>14. CASE DropDatabase
    <2>1. database' \in BOOLEAN
      BY <1>14, Zenon DEF DropDatabase
    <2> QED BY <2>1, <1>14 DEF DropDatabase, Then, Goto, Fail, Fault, Reply
  <1>15. CASE RemoveTree
    BY <1>15 DEF RemoveTree, Then, Goto, Fail, Fault, Reply
  <1>16. CASE RemoveFiles
    <2>1. vhost' \in BOOLEAN
      BY <1>16, Zenon DEF RemoveFiles
    <2> QED BY <2>1, <1>16 DEF RemoveFiles, Then, Goto, Fail, Fault, Reply
  <1>17. CASE RemoveAccount
    <2>1. procs' \in BOOLEAN /\ account' \in BOOLEAN
      BY <1>17, Zenon DEF RemoveAccount, StopSite
    <2> QED BY <2>1, <1>17 DEF RemoveAccount, StopSite, Then, Goto, Fail, Fault, Reply
  <1>18. CASE MarkDone
    <2>1. [mem EXCEPT !.state = "done"] \in Record
      BY RecordSet DEF TypeOK
    <2>2. mem' = [mem EXCEPT !.state = "done"] /\ record' = [mem EXCEPT !.state = "done"]
      BY <1>18 DEF MarkDone, Save
    <2>3. mem' \in Record /\ record' \in Record
      BY <2>1, <2>2
    <2> QED BY <2>3, <1>18 DEF MarkDone, Save, Fault, Reply
  <1>19. CASE Deliver
    <2>1. told' \in BOOLEAN
      BY <1>19, Zenon DEF Deliver
    <2> QED BY <2>1, <1>19 DEF Deliver, Fault
  <1>20. CASE StopBroker
    BY <1>20 DEF StopBroker, Fault
  <1>21. CASE NginxReload
    BY <1>21 DEF NginxReload
  <1>22. CASE PHPApplies
    <2>1. branch' \in Branch /\ listening' \in BOOLEAN
      BY <1>22, BranchSet DEF PHPApplies, Branch
    <2> QED BY <2>1, <1>22 DEF PHPApplies, Branch
  <1>23. CASE ProgramStarts
    BY <1>23 DEF ProgramStarts
  <1>24. CASE NeighbourMoves
    BY <1>24 DEF NeighbourMoves
  <1>25. CASE UNCHANGED vars
    BY <1>25
  <1> QED BY <1>1, <1>2, <1>3, <1>4, <1>5, <1>6, <1>7, <1>8, <1>9, <1>10, <1>11, <1>12, <1>13, <1>14, <1>15, <1>16, <1>17, <1>18, <1>19, <1>20, <1>21, <1>22, <1>23, <1>24, <1>25 DEF Next, CallStep

\* Whatever a step removes, the record already says that it may be gone.
LEMMA RecordKept ==
  ASSUME TypeOK, RecordIsTrue, CallGetsFurther, [Next]_vars
  PROVE  RecordIsTrue'
  <1> USE BoundsAssumption DEF TypeOK, Record, Branch, Steps, vars, config, live, call, RecordIsTrue, CallGetsFurther, Unlinked, Silent
  <1>1. CASE Call
    BY <1>1 DEF Call
  <1>2. CASE StepFails
    BY <1>2 DEF StepFails, Fail, Fault, Reply
  <1>3. CASE AnswerAgain
    BY <1>3 DEF AnswerAgain, Reply
  <1>4. CASE Resume
    BY <1>4 DEF Resume, Goto
  <1>5. CASE Begin
    BY <1>5 DEF Begin, Save, Fault, Reply
  <1>6. CASE Unlink
    BY <1>6 DEF Unlink, Then, Goto, Fail, Fault, Reply
  <1>7. CASE ReloadNginx
    BY <1>7 DEF ReloadNginx, AfterNginx, Then, Goto, Fail, Fault, Reply
  <1>8. CASE RemovePool
    BY <1>8 DEF RemovePool, Then, Goto, Fail, Fault, Reply
  <1>9. CASE ReleaseBranch
    BY <1>9 DEF ReleaseBranch, Then, Goto, Fail, Fault, Reply
  <1>10. CASE WaitListener
    BY <1>10 DEF WaitListener, Goto
  <1>11. CASE RemoveLaunchers
    BY <1>11 DEF RemoveLaunchers, Then, Goto, Fail, Fault, Reply
  <1>12. CASE MarkStopped
    BY <1>12 DEF MarkStopped, Save, Fault, Reply
  <1>13. CASE StopPrograms
    BY <1>13 DEF StopPrograms, StopSite, Then, Goto, Fail, Fault, Reply
  <1>14. CASE DropDatabase
    BY <1>14 DEF DropDatabase, Then, Goto, Fail, Fault, Reply
  <1>15. CASE RemoveTree
    BY <1>15 DEF RemoveTree, Then, Goto, Fail, Fault, Reply
  <1>16. CASE RemoveFiles
    BY <1>16 DEF RemoveFiles, Then, Goto, Fail, Fault, Reply
  <1>17. CASE RemoveAccount
    BY <1>17 DEF RemoveAccount, StopSite, Then, Goto, Fail, Fault, Reply
  <1>18. CASE MarkDone
    BY <1>18 DEF MarkDone, Save, Fault, Reply
  <1>19. CASE Deliver
    BY <1>19 DEF Deliver, Fault
  <1>20. CASE StopBroker
    BY <1>20 DEF StopBroker, Fault
  <1>21. CASE NginxReload
    BY <1>21 DEF NginxReload
  <1>22. CASE PHPApplies
    BY <1>22 DEF PHPApplies
  <1>23. CASE ProgramStarts
    BY <1>23 DEF ProgramStarts
  <1>24. CASE NeighbourMoves
    BY <1>24 DEF NeighbourMoves
  <1>25. CASE UNCHANGED vars
    BY <1>25
  <1> QED BY <1>1, <1>2, <1>3, <1>4, <1>5, <1>6, <1>7, <1>8, <1>9, <1>10, <1>11, <1>12, <1>13, <1>14, <1>15, <1>16, <1>17, <1>18, <1>19, <1>20, <1>21, <1>22, <1>23, <1>24, <1>25 DEF Next, CallStep

\* A call that goes on has done its earlier steps, and nobody undoes them.
LEMMA ProgressKept ==
  ASSUME TypeOK, RecordIsTrue, CallGetsFurther, [Next]_vars
  PROVE  CallGetsFurther'
  <1> USE BoundsAssumption DEF TypeOK, Record, Branch, Steps, vars, config, live, call, RecordIsTrue, CallGetsFurther, Unlinked, Silent
  <1>1. CASE Call
    BY <1>1 DEF Call
  <1>2. CASE StepFails
    BY <1>2 DEF StepFails, Fail, Fault, Reply
  <1>3. CASE AnswerAgain
    BY <1>3 DEF AnswerAgain, Reply
  <1>4. CASE Resume
    BY <1>4 DEF Resume, Goto
  <1>5. CASE Begin
    BY <1>5 DEF Begin, Save, Fault, Reply
  <1>6. CASE Unlink
    BY <1>6 DEF Unlink, Then, Goto, Fail, Fault, Reply
  <1>7. CASE ReloadNginx
    BY <1>7 DEF ReloadNginx, AfterNginx, Then, Goto, Fail, Fault, Reply
  <1>8. CASE RemovePool
    BY <1>8 DEF RemovePool, Then, Goto, Fail, Fault, Reply
  <1>9. CASE ReleaseBranch
    BY <1>9 DEF ReleaseBranch, Then, Goto, Fail, Fault, Reply
  <1>10. CASE WaitListener
    BY <1>10 DEF WaitListener, Goto
  <1>11. CASE RemoveLaunchers
    BY <1>11 DEF RemoveLaunchers, Then, Goto, Fail, Fault, Reply
  <1>12. CASE MarkStopped
    BY <1>12 DEF MarkStopped, Save, Fault, Reply
  <1>13. CASE StopPrograms
    BY <1>13 DEF StopPrograms, StopSite, Then, Goto, Fail, Fault, Reply
  <1>14. CASE DropDatabase
    BY <1>14 DEF DropDatabase, Then, Goto, Fail, Fault, Reply
  <1>15. CASE RemoveTree
    BY <1>15 DEF RemoveTree, Then, Goto, Fail, Fault, Reply
  <1>16. CASE RemoveFiles
    BY <1>16 DEF RemoveFiles, Then, Goto, Fail, Fault, Reply
  <1>17. CASE RemoveAccount
    BY <1>17 DEF RemoveAccount, StopSite, Then, Goto, Fail, Fault, Reply
  <1>18. CASE MarkDone
    BY <1>18 DEF MarkDone, Save, Fault, Reply
  <1>19. CASE Deliver
    BY <1>19 DEF Deliver, Fault
  <1>20. CASE StopBroker
    BY <1>20 DEF StopBroker, Fault
  <1>21. CASE NginxReload
    BY <1>21 DEF NginxReload
  <1>22. CASE PHPApplies
    BY <1>22 DEF PHPApplies
  <1>23. CASE ProgramStarts
    BY <1>23 DEF ProgramStarts
  <1>24. CASE NeighbourMoves
    BY <1>24 DEF NeighbourMoves
  <1>25. CASE UNCHANGED vars
    BY <1>25
  <1> QED BY <1>1, <1>2, <1>3, <1>4, <1>5, <1>6, <1>7, <1>8, <1>9, <1>10, <1>11, <1>12, <1>13, <1>14, <1>15, <1>16, <1>17, <1>18, <1>19, <1>20, <1>21, <1>22, <1>23, <1>24, <1>25 DEF Next, CallStep

\* A step takes away only what the call found.
LEMMA TakenAway ==
  ASSUME TypeOK, RecordIsTrue, CallGetsFurther, [Next]_vars, CallsTakeAway
  PROVE  CallsTakeAway'
  <1> USE BoundsAssumption, DomainAssumption DEF TypeOK, Record, Branch, Steps, vars, config, live, call, RecordIsTrue, CallGetsFurther, CallsTakeAway, Unlinked, Silent, HostView, Result, Gone
  <1>1. CASE Call
    BY <1>1 DEF Call
  <1>2. CASE StepFails
    BY <1>2 DEF StepFails, Fail, Fault, Reply
  <1>3. CASE AnswerAgain
    BY <1>3 DEF AnswerAgain, Reply
  <1>4. CASE Resume
    BY <1>4 DEF Resume, Goto
  <1>5. CASE Begin
    BY <1>5 DEF Begin, Save, Fault, Reply
  <1>6. CASE Unlink
    BY <1>6 DEF Unlink, Then, Goto, Fail, Fault, Reply
  <1>7. CASE ReloadNginx
    BY <1>7 DEF ReloadNginx, AfterNginx, Then, Goto, Fail, Fault, Reply
  <1>8. CASE RemovePool
    BY <1>8 DEF RemovePool, Then, Goto, Fail, Fault, Reply
  <1>9. CASE ReleaseBranch
    BY <1>9 DEF ReleaseBranch, Then, Goto, Fail, Fault, Reply
  <1>10. CASE WaitListener
    BY <1>10 DEF WaitListener, Goto
  <1>11. CASE RemoveLaunchers
    BY <1>11 DEF RemoveLaunchers, Then, Goto, Fail, Fault, Reply
  <1>12. CASE MarkStopped
    BY <1>12 DEF MarkStopped, Save, Fault, Reply
  <1>13. CASE StopPrograms
    BY <1>13 DEF StopPrograms, StopSite, Then, Goto, Fail, Fault, Reply
  <1>14. CASE DropDatabase
    BY <1>14 DEF DropDatabase, Then, Goto, Fail, Fault, Reply
  <1>15. CASE RemoveTree
    BY <1>15 DEF RemoveTree, Then, Goto, Fail, Fault, Reply
  <1>16. CASE RemoveFiles
    BY <1>16 DEF RemoveFiles, Then, Goto, Fail, Fault, Reply
  <1>17. CASE RemoveAccount
    BY <1>17 DEF RemoveAccount, StopSite, Then, Goto, Fail, Fault, Reply
  <1>18. CASE MarkDone
    BY <1>18 DEF MarkDone, Save, Fault, Reply
  <1>19. CASE Deliver
    BY <1>19 DEF Deliver, Fault
  <1>20. CASE StopBroker
    BY <1>20 DEF StopBroker, Fault
  <1>21. CASE NginxReload
    BY <1>21 DEF NginxReload
  <1>22. CASE PHPApplies
    BY <1>22 DEF PHPApplies
  <1>23. CASE ProgramStarts
    BY <1>23 DEF ProgramStarts
  <1>24. CASE NeighbourMoves
    BY <1>24 DEF NeighbourMoves
  <1>25. CASE UNCHANGED vars
    BY <1>25
  <1> QED BY <1>1, <1>2, <1>3, <1>4, <1>5, <1>6, <1>7, <1>8, <1>9, <1>10, <1>11, <1>12, <1>13, <1>14, <1>15, <1>16, <1>17, <1>18, <1>19, <1>20, <1>21, <1>22, <1>23, <1>24, <1>25 DEF Next, CallStep

\* A site as a call finds it: files and traffic, or not; the vhost, or none.
LEMMA HostSeen ==
  ASSUME tree \in {"whole", "part", "none"}, link \in BOOLEAN
  PROVE  /\ HostView \in [files : BOOLEAN, vhost : {Domain, None}, serving : BOOLEAN]
         /\ Result(HostView, "none", "none").host = HostView
         /\ Result(HostView, "none", "none").journal = "none"
  BY DEF HostView, Result

\* Sites are found as Provision or Disable left them.
LEMMA InitIsFound == Init => DeletionInv
  <1> SUFFICES ASSUME Init PROVE DeletionInv
    OBVIOUS
  <1>1. /\ link \in BOOLEAN /\ vhost \in BOOLEAN /\ pool \in BOOLEAN /\ launchers \in BOOLEAN
        /\ account \in BOOLEAN /\ database \in BOOLEAN /\ tree \in {"whole", "none"}
        /\ traffic \in BOOLEAN /\ listening \in BOOLEAN
        /\ (tree # "none" \/ database => account)
    BY DEF Init
  <1>2. /\ record = [state |-> "none", stopped |-> FALSE, account |-> FALSE, database |-> FALSE]
        /\ mem = record /\ record.state = "none" /\ record \in Record
    BY DEF Init, Record
  <1>3. TypeOK
    <2>1. told \in BOOLEAN /\ procs \in BOOLEAN
      BY Zenon DEF Init
    <2>2. pc \in Steps /\ reply \in {"none", "ok", "fail"} /\ faults \in 0..MaxFaults
      BY BoundsAssumption DEF Init, Steps
    <2>3. branch \in Branch
      BY DEF Init
    <2>4. traffic \in BOOLEAN /\ listening \in BOOLEAN /\ tree \in {"whole", "part", "none"}
      BY <1>1, Zenon
    <2> QED BY <1>1, <1>2, <2>1, <2>2, <2>3, <2>4, Zenon DEF TypeOK
  <1>4. RecordIsTrue
    BY <1>1, <1>2 DEF Init, RecordIsTrue, Record
  <1>5. CallGetsFurther
    BY DEF Init, CallGetsFurther
  <1>6. CallsTakeAway
    BY <1>1, <1>2, HostSeen DEF Init, CallsTakeAway
  <1> QED BY <1>3, <1>4, <1>5, <1>6 DEF DeletionInv

\* The record and the place of the call tell how far the deletion is
\* (DeleteSite's stages and its record, wherever a call was broken off).
THEOREM DeletionIsTracked == Spec => []DeletionInv
  <1>1. DeletionInv /\ [Next]_vars => DeletionInv'
    BY TypesKept, RecordKept, ProgressKept, TakenAway DEF DeletionInv
  <1> QED BY InitIsFound, <1>1, PTL DEF Spec

\* The variables keep their types.
THEOREM TypeCorrect == Spec => []TypeOK
  <1>1. DeletionInv => TypeOK
    BY DEF DeletionInv
  <1> QED BY DeletionIsTracked, <1>1, PTL

\* Nothing writes to the site while its data is being removed: visitors, PHP,
\* cron and logins, and the site's programs are stopped before the first byte.
THEOREM NobodyEverWritesWhileRemoving == Spec => []NobodyWritesWhileRemoving
  <1>1. DeletionInv => NobodyWritesWhileRemoving
    BY DEF DeletionInv, NobodyWritesWhileRemoving, RecordIsTrue, Silent, Unlinked, TypeOK, Record
  <1> QED BY DeletionIsTracked, <1>1, PTL

\* The account is there as long as a file or the database of the site is.
THEOREM AccountsOutliveData == Spec => []AccountOutlivesData
  <1>1. DeletionInv => AccountOutlivesData
    BY DEF DeletionInv, AccountOutlivesData, RecordIsTrue
  <1> QED BY DeletionIsTracked, <1>1, PTL

\* A record that says done is right about the disk and about what runs.
THEOREM DoneIsGone == Spec => []DoneMeansGone
  <1>1. DeletionInv => DoneMeansGone
    BY DEF DeletionInv, DoneMeansGone, RecordIsTrue, Silent, Unlinked, TypeOK
  <1> QED BY DeletionIsTracked, <1>1, PTL

\* Neighbours on the same PHP branch keep it running through a deletion.
THEOREM NeighboursAlwaysKeepPHP == Spec => []NeighboursKeepPHP
  <1>1. DeletionInv => NeighboursKeepPHP
    BY DEF DeletionInv, NeighboursKeepPHP, RecordIsTrue
  <1> QED BY DeletionIsTracked, <1>1, PTL

\* Every end of a call, right or wrong, is one that SiteLifecycle expects.
THEOREM CallsAreSummarised == Spec => []CallsMatchTheirSummary
  <1>1. DeletionInv => CallsMatchTheirSummary
    <2> SUFFICES ASSUME DeletionInv, pc = "answered"
                 PROVE  Result(HostView, record.state, reply) \in DeleteResults(began.host, began.journal)
      BY DEF CallsMatchTheirSummary
    <2> DEFINE h == began.host
               n == began.journal
    <2>1. /\ reply \in {"ok", "fail"} /\ (reply = "ok" => record.state = "done")
          /\ record.state \in {"none", "removing", "done"} /\ n \in {"none", "removing", "done"}
          /\ h \in [files : BOOLEAN, vhost : {Domain, None}, serving : BOOLEAN]
      BY DEF DeletionInv, TypeOK, Record, CallGetsFurther, CallsTakeAway
    <2>2. CASE record.state = "none"
      <3>1. n = "none" /\ HostView = h
        BY <2>1, <2>2 DEF DeletionInv, CallsTakeAway
      <3> QED BY <2>1, <2>2, <3>1 DEF DeleteResults
    <2>3. CASE record.state = "removing"
      <3>1. n # "done"
        BY <2>1, <2>3 DEF DeletionInv, CallsTakeAway
      <3>2. /\ HostView.files => h.files
            /\ HostView.vhost # None => h.vhost = Domain
            /\ HostView.serving => h.serving
            /\ (~HostView.files /\ h.files => ~HostView.serving)
            /\ (HostView.vhost = None /\ h.vhost = Domain => ~HostView.serving /\ ~HostView.files)
        BY DomainAssumption DEF DeletionInv, CallsTakeAway, HostView
      <3>3. HostView \in [files : BOOLEAN, vhost : {Domain, None}, serving : BOOLEAN]
        BY HostSeen DEF DeletionInv, TypeOK
      <3>4. HostView \in {h, [h EXCEPT !.serving = FALSE],
                          Bare(h.vhost), Gone}
        <4> SUFFICES ASSUME NEW v \in [files : BOOLEAN, vhost : {Domain, None}, serving : BOOLEAN],
                            NEW g \in [files : BOOLEAN, vhost : {Domain, None}, serving : BOOLEAN],
                            v.files => g.files, v.vhost # None => g.vhost = Domain,
                            v.serving => g.serving, ~v.files /\ g.files => ~v.serving,
                            v.vhost = None /\ g.vhost = Domain => ~v.serving /\ ~v.files
                     PROVE  v \in {g, [g EXCEPT !.serving = FALSE],
                                   Bare(g.vhost), Gone}
          BY <2>1, <3>2, <3>3
        <4>1. CASE v.vhost # g.vhost
          BY <4>1, DomainAssumption DEF Gone
        <4>2. CASE v.vhost = g.vhost
          <5> DEFINE Rec(f, d, z) == [files |-> f, vhost |-> d, serving |-> z]
          <5>1. v = Rec(v.files, v.vhost, v.serving)
            OBVIOUS
          <5>4. g = Rec(g.files, g.vhost, g.serving)
            OBVIOUS
          <5>5. [g EXCEPT !.serving = FALSE] = Rec(g.files, g.vhost, FALSE)
            <6>1. ASSUME NEW x PROVE [g EXCEPT !.serving = x] = Rec(g.files, g.vhost, x)
              OBVIOUS
            <6> QED BY <6>1, Zenon
          <5>6. Bare(g.vhost) = Rec(FALSE, g.vhost, FALSE)
            BY DEF Bare
          <5>2. v.files \in BOOLEAN /\ v.serving \in BOOLEAN /\ g.files \in BOOLEAN /\ g.serving \in BOOLEAN
            OBVIOUS
          <5>3. \/ v.files = g.files /\ v.serving = g.serving
                \/ v.files = g.files /\ v.serving = FALSE
                \/ v.files = FALSE /\ v.serving = FALSE
            BY <5>2, Zenon
          <5> QED BY <4>2, <5>1, <5>4, <5>5, <5>6, <5>3, Zenon
        <4> QED BY <4>1, <4>2
      <3> QED BY <2>1, <2>3, <3>1, <3>4 DEF DeleteResults
    <2>4. CASE record.state = "done"
      <3>1. HostView = Gone
        BY <2>4 DEF DeletionInv, RecordIsTrue, Silent, Unlinked, HostView, Gone, TypeOK
      <3>2. n = "done" => h = Gone
        BY DEF DeletionInv, CallsTakeAway
      <3> QED BY <2>1, <2>4, <3>1, <3>2 DEF DeleteResults
    <2> QED BY <2>1, <2>2, <2>3, <2>4
  <1> QED BY DeletionIsTracked, <1>1, PTL
=============================================================================
