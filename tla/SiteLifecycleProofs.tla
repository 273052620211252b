------------------------ MODULE SiteLifecycleProofs ------------------------
(***************************************************************************)
(* Three inductive invariants of the queue, the panel's database and the   *)
(* host, each on top of the one before, for every set of sites, host names *)
(* and jobs.                                                               *)
(*                                                                         *)
(* StoreInv  what the tables say of each other.  RowsInv is its part about *)
(*           tables only, WorkInv the part about what the workers and the  *)
(*           broker hold.  It needs no assumption on the workers.          *)
(* HostInv   what the tables say of the host, when one worker records the  *)
(*           answers (OneWorker) and the host's locks are granted in order *)
(*           of arrival (Ordered).                                         *)
(* QueueInv  what the worker and the broker still hold of each site, when  *)
(*           moreover every kind of job is replayed (Replayed).            *)
(***************************************************************************)
EXTENDS SiteLifecycle, SequenceTheorems, TLAPS

RowTypes ==
    /\ site \in [Sites -> SiteRow]
    /\ tomb \subseteq Sites
    /\ reservation \subseteq Rsv
    /\ job \in [JobId -> JobRow]
    /\ lastJob \in 0..MaxJobs

RowsInv ==
    /\ RowTypes /\ RowsWellFormed /\ AbsentSitesHaveNoDomain
    /\ DomainsDisjoint /\ ReservationFollowsChange /\ ReservationHasItsOwner
    /\ LockedSitesAreQuiet /\ TransitionsHaveTheirJob

WorkTypes ==
    /\ checked \subseteq Sites
    /\ worker \in [Workers -> Worker]
    /\ inbox \in Seq(Request)
    /\ journal \in [JobId -> Journals]
    /\ host \in [Sites -> HostSite]
    /\ faults \in 0..MaxFaults

WorkInv == WorkTypes /\ WorkHasItsRow /\ CallersWait

\* The invariant falls into the tables' part and the working parties' part.
LEMMA TwoParts == StoreInv <=> RowsInv /\ WorkInv
  BY DEF StoreInv, TypeOK, RowsInv, RowTypes, WorkInv, WorkTypes

-----------------------------------------------------------------------------
(* Facts about single operations that the steps below share. *)

\* A kind is a status kind or one of the two ordinary ones, never both.
LEMMA KindFacts ==
  /\ StatusKinds = {"site.provision", "site.restore_clone", "site.disable",
                    "site.enable", "site.domain_change", "site.delete"}
  /\ JobKinds = StatusKinds \cup {"site.backup", "site.config_apply"}
  /\ Transit["site.provision"] = "queued" /\ Transit["site.restore_clone"] = "queued"
  /\ Transit["site.disable"] = "disabling" /\ Transit["site.enable"] = "enabling"
  /\ Transit["site.domain_change"] = "domain_changing" /\ Transit["site.delete"] = "deleting"
  BY DEF StatusKinds, JobKinds, Transit

\* What a table of jobs looks like after a row was appended.
LEMMA InsertedRow ==
  ASSUME RowsInv, NEW k \in JobKinds, NEW s \in Sites, NEW src \in Sites \cup {None},
         NEW d \in Domains \cup {None}, InsertJob(k, s, src, d),
         IF k = "site.restore_clone" THEN src \in Sites ELSE src = None
  PROVE  /\ lastJob + 1 \in JobId /\ lastJob' = lastJob + 1
         /\ lastJob' \in 0..MaxJobs
         /\ job' \in [JobId -> JobRow]
         /\ job'[lastJob + 1].kind = k /\ job'[lastJob + 1].site = s
         /\ job'[lastJob + 1].source = src /\ job'[lastJob + 1].domain = d
         /\ job'[lastJob + 1].status = "queued"
         /\ \A j \in JobId : j # lastJob + 1 => job'[j] = job[j]
         /\ RowsWellFormed'
         /\ job[lastJob + 1] = NoJob
  <1>1. lastJob + 1 \in JobId /\ lastJob' = lastJob + 1 /\ lastJob' \in 0..MaxJobs
    BY BoundsAssumption DEF InsertJob, RowsInv, RowTypes, JobId
  <1> DEFINE new == [kind |-> k, site |-> s, source |-> src, domain |-> d, status |-> "queued"]
  <1>2. new \in JobRow
    BY DEF JobRow, JobStatus
  <1>3. /\ job' \in [JobId -> JobRow]
        /\ job'[lastJob + 1] = new
        /\ \A j \in JobId : j # lastJob + 1 => job'[j] = job[j]
    BY <1>1, <1>2 DEF InsertJob, RowsInv, RowTypes
  <1>4. job[lastJob + 1] = NoJob
    BY <1>1 DEF RowsInv, RowTypes, RowsWellFormed, JobId
  <1> HIDE DEF new
  <1>5. RowsWellFormed'
    <2> SUFFICES ASSUME NEW j \in JobId
                 PROVE IF j <= lastJob'
                       THEN /\ job'[j].kind \in JobKinds /\ job'[j].site \in Sites
                            /\ job'[j].status # "absent"
                            /\ IF job'[j].kind = "site.restore_clone" THEN job'[j].source \in Sites
                               ELSE job'[j].source = None
                       ELSE job'[j] = NoJob
      BY DEF RowsWellFormed
    <2> QED BY <1>1, <1>3 DEF RowsInv, RowTypes, RowsWellFormed, JobId, new
  <1> QED BY <1>1, <1>3, <1>4, <1>5 DEF new

\* A status job n that becomes pending for a site no other status job has.
LEMMA NewOwner ==
  ASSUME TransitionsHaveTheirJob, NEW n \in JobId, NEW s \in Sites,
         ~Pending(n), Pending(n)',
         job'[n].kind \in StatusKinds, job'[n].site = s,
         site'[s].status = Transit[job'[n].kind],
         \A j \in JobId : j # n => job'[j] = job[j],
         \A t \in Sites : t # s => site'[t] = site[t],
         \A j \in JobId : Pending(j) => job[j].site \in Sites,
         \A j \in JobId : Pending(j) /\ job[j].kind \in StatusKinds => job[j].site # s
  PROVE  TransitionsHaveTheirJob'
  <1>1. \A j \in JobId : j # n => (Pending(j)' <=> Pending(j))
    BY DEF Pending
  <1>2. ASSUME NEW t \in Sites, site'[t].status \in TransitStatus
        PROVE  \E j \in JobId : /\ Pending(j)' /\ job'[j].site = t /\ job'[j].kind \in StatusKinds
                                /\ Transit[job'[j].kind] = site'[t].status
    <2>1. CASE t = s
      BY <2>1
    <2>2. CASE t # s
      <3>1. PICK j \in JobId : /\ Pending(j) /\ job[j].site = t /\ job[j].kind \in StatusKinds
                              /\ Transit[job[j].kind] = site[t].status
        BY <1>2, <2>2 DEF TransitionsHaveTheirJob
      <3>2. j # n
        BY <3>1
      <3> QED BY <3>1, <3>2, <1>1, <2>2
    <2> QED BY <2>1, <2>2
  <1>3. ASSUME NEW j \in JobId, Pending(j)', job'[j].kind \in StatusKinds
        PROVE  /\ site'[job'[j].site].status = Transit[job'[j].kind]
               /\ \A i \in JobId : Pending(i)' /\ job'[i].kind \in StatusKinds
                                     /\ job'[i].site = job'[j].site => i = j
    <2>1. CASE j = n
      <3>1. ASSUME NEW i \in JobId, i # n, Pending(i)', job'[i].kind \in StatusKinds
            PROVE  job'[i].site # s
        BY <3>1, <1>1
      <3> QED BY <2>1, <3>1
    <2>2. CASE j # n
      <3>1. /\ Pending(j) /\ job'[j] = job[j] /\ job[j].kind \in StatusKinds
            /\ job[j].site # s /\ job[j].site \in Sites
        BY <2>2, <1>1, <1>3
      <3>2. site'[job'[j].site].status = Transit[job'[j].kind]
        BY <3>1 DEF TransitionsHaveTheirJob
      <3>3. ASSUME NEW i \in JobId, Pending(i)', job'[i].kind \in StatusKinds,
                   job'[i].site = job'[j].site
            PROVE  i = j
        <4>1. i # n
          BY <3>1, <3>3
        <4> QED BY <4>1, <3>1, <3>3, <1>1 DEF TransitionsHaveTheirJob
      <3> QED BY <3>2, <3>3
    <2> QED BY <2>1, <2>2
  <1> QED BY <1>2, <1>3 DEF TransitionsHaveTheirJob

\* Nothing happens to pending status jobs but a change between queued and running.
LEMMA SameOwners ==
  ASSUME TransitionsHaveTheirJob, UNCHANGED site,
         \A j \in JobId : Pending(j)' /\ job'[j].kind \in StatusKinds =>
                          Pending(j) /\ job[j].kind \in StatusKinds,
         \A j \in JobId : Pending(j) /\ job[j].kind \in StatusKinds =>
           Pending(j)' /\ job'[j].kind = job[j].kind /\ job'[j].site = job[j].site
  PROVE  TransitionsHaveTheirJob'
  <1>1. ASSUME NEW t \in Sites, site'[t].status \in TransitStatus
        PROVE  \E j \in JobId : /\ Pending(j)' /\ job'[j].site = t /\ job'[j].kind \in StatusKinds
                                /\ Transit[job'[j].kind] = site'[t].status
    <2>1. PICK j \in JobId : /\ Pending(j) /\ job[j].site = t /\ job[j].kind \in StatusKinds
                            /\ Transit[job[j].kind] = site[t].status
      BY <1>1 DEF TransitionsHaveTheirJob
    <2> QED BY <2>1
  <1>2. ASSUME NEW j \in JobId, Pending(j)', job'[j].kind \in StatusKinds
        PROVE  /\ site'[job'[j].site].status = Transit[job'[j].kind]
               /\ \A i \in JobId : Pending(i)' /\ job'[i].kind \in StatusKinds
                                     /\ job'[i].site = job'[j].site => i = j
    <2>1. Pending(j) /\ job[j].kind \in StatusKinds
          /\ job'[j].kind = job[j].kind /\ job'[j].site = job[j].site
      BY <1>2
    <2>2. site'[job'[j].site].status = Transit[job'[j].kind]
      BY <2>1 DEF TransitionsHaveTheirJob
    <2>3. ASSUME NEW i \in JobId, Pending(i)', job'[i].kind \in StatusKinds,
                 job'[i].site = job'[j].site
          PROVE  i = j
      <3>1. Pending(i) /\ job[i].kind \in StatusKinds /\ job'[i].site = job[i].site
        BY <2>3
      <3> QED BY <2>1, <2>3, <3>1 DEF TransitionsHaveTheirJob
    <2> QED BY <2>2, <2>3
  <1> QED BY <1>1, <1>2 DEF TransitionsHaveTheirJob

\* A status job is closed and its site gets a status that needs no job.
LEMMA OwnerLeaves ==
  ASSUME TransitionsHaveTheirJob, NEW n \in JobId, NEW s \in Sites,
         Pending(n), job[n].kind \in StatusKinds, job[n].site = s, ~Pending(n)',
         site'[s].status \notin TransitStatus,
         \A j \in JobId : j # n => job'[j] = job[j],
         \A t \in Sites : t # s => site'[t] = site[t],
         \A j \in JobId : Pending(j) => job[j].site \in Sites
  PROVE  /\ TransitionsHaveTheirJob'
         /\ \A j \in JobId : Pending(j)' /\ job'[j].kind \in StatusKinds => job'[j].site # s
  <1>1. \A j \in JobId : Pending(j)' => j # n /\ Pending(j) /\ job'[j] = job[j]
    BY DEF Pending
  <1>2. \A j \in JobId : Pending(j) /\ job[j].kind \in StatusKinds /\ j # n => job[j].site # s
    BY DEF TransitionsHaveTheirJob
  <1>3. ASSUME NEW t \in Sites, site'[t].status \in TransitStatus
        PROVE  \E j \in JobId : /\ Pending(j)' /\ job'[j].site = t /\ job'[j].kind \in StatusKinds
                                /\ Transit[job'[j].kind] = site'[t].status
    <2>1. t # s
      BY <1>3
    <2>2. PICK j \in JobId : /\ Pending(j) /\ job[j].site = t /\ job[j].kind \in StatusKinds
                            /\ Transit[job[j].kind] = site[t].status
      BY <1>3, <2>1 DEF TransitionsHaveTheirJob
    <2>3. j # n /\ job'[j] = job[j]
      BY <2>1, <2>2
    <2> QED BY <2>1, <2>2, <2>3 DEF Pending
  <1>4. ASSUME NEW j \in JobId, Pending(j)', job'[j].kind \in StatusKinds
        PROVE  /\ site'[job'[j].site].status = Transit[job'[j].kind]
               /\ \A i \in JobId : Pending(i)' /\ job'[i].kind \in StatusKinds
                                     /\ job'[i].site = job'[j].site => i = j
    <2>1. /\ j # n /\ Pending(j) /\ job'[j] = job[j] /\ job[j].kind \in StatusKinds
          /\ job[j].site \in Sites /\ job[j].site # s
      BY <1>1, <1>2, <1>4
    <2>2. site'[job'[j].site].status = Transit[job'[j].kind]
      BY <2>1 DEF TransitionsHaveTheirJob
    <2>3. ASSUME NEW i \in JobId, Pending(i)', job'[i].kind \in StatusKinds,
                 job'[i].site = job'[j].site
          PROVE  i = j
      <3>1. Pending(i) /\ job'[i] = job[i]
        BY <1>1, <2>3
      <3> QED BY <2>1, <2>3, <3>1 DEF TransitionsHaveTheirJob
    <2> QED BY <2>2, <2>3
  <1> QED BY <1>1, <1>2, <1>3, <1>4 DEF TransitionsHaveTheirJob

-----------------------------------------------------------------------------
(* Every handler keeps the tables consistent. *)

\* CreateSite and EnqueueRestoreClone: a new row with the job that fills it.
LEMMA NewSite ==
  ASSUME RowsInv, NEW k \in {"site.provision", "site.restore_clone"},
         NEW s \in Sites, NEW src \in Sites \cup {None}, NEW d \in Domains,
         InsertSite(s, d), InsertJob(k, s, src, None), UNCHANGED <<tomb, reservation>>,
         IF k = "site.restore_clone" THEN src \in Sites ELSE src = None
  PROVE  RowsInv'
  <1>0. PICK n \in Nat : n = lastJob + 1
    BY DEF RowsInv, RowTypes
  <1>1. k \in JobKinds /\ k \in StatusKinds /\ k \notin LifecycleKinds /\ Transit[k] = "queued"
    BY KindFacts DEF LifecycleKinds
  <1>2. /\ n \in JobId /\ lastJob' = n /\ lastJob' \in 0..MaxJobs
        /\ job' \in [JobId -> JobRow]
        /\ job'[n].kind = k /\ job'[n].site = s /\ job'[n].source = src
        /\ job'[n].status = "queued" /\ job[n] = NoJob
        /\ \A j \in JobId : j # n => job'[j] = job[j]
        /\ RowsWellFormed'
    BY <1>0, <1>1, InsertedRow
  <1>3. /\ site' \in [Sites -> SiteRow]
        /\ site'[s] = [status |-> "queued", domain |-> d]
        /\ \A t \in Sites : t # s => site'[t] = site[t]
        /\ site[s].status = "absent"
    BY DEF InsertSite, RowsInv, RowTypes, SiteRow, SiteStatus, TransitStatus
  <1>4. \A t \in {s, src} \ {None} : site[t].status \notin LockedStatus
    BY <1>1 DEF InsertJob, LifecycleLock
  <1>5. RowTypes'
    BY <1>2, <1>3 DEF RowsInv, RowTypes
  <1>6. AbsentSitesHaveNoDomain'
    BY <1>3, NoneAssumption DEF RowsInv, AbsentSitesHaveNoDomain
  <1>7. DomainsDisjoint'
    BY <1>3, NoneAssumption DEF RowsInv, DomainsDisjoint, InsertSite, DomainFree
  <1>8. \A r \in reservation : r.job \in JobId /\ r.job # n /\ job'[r.job] = job[r.job]
    <2> SUFFICES ASSUME NEW r \in reservation PROVE r.job \in JobId /\ r.job # n
      BY <1>2
    <2>1. r.job \in JobId /\ r.site \in Sites
      BY DEF RowsInv, RowTypes, Rsv
    <2>2. job[r.job].site = r.site
      BY DEF RowsInv, ReservationHasItsOwner
    <2>3. job[n].site = None
      BY <1>2 DEF NoJob
    <2> QED BY <2>1, <2>2, <2>3, NoneAssumption
  <1>9. ReservationFollowsChange'
    BY <1>3, <1>8 DEF RowsInv, ReservationFollowsChange
  <1>10. ReservationHasItsOwner'
    BY <1>1, <1>2, <1>8 DEF RowsInv, ReservationHasItsOwner, Pending, LifecycleKinds
  <1>11. LockedSitesAreQuiet'
    <2> SUFFICES ASSUME NEW t \in Sites, NEW j \in JobId, Pending(j)', Touches(j, t)',
                        site'[t].status \in LockedStatus
                 PROVE  /\ job'[j].kind \in LifecycleKinds /\ job'[j].site = t
                        /\ site'[t].status = Transit[job'[j].kind]
      BY DEF LockedSitesAreQuiet
    <2>1. t # s /\ site'[t] = site[t]
      BY <1>3 DEF LockedStatus
    <2>2. j # n
      <3> SUFFICES ASSUME j = n PROVE FALSE
        OBVIOUS
      <3>1. t \in {s, src} /\ t # None
        BY <1>2, NoneAssumption DEF Touches
      <3> QED BY <3>1, <2>1, <1>4
    <2>3. job'[j] = job[j] /\ Pending(j) /\ Touches(j, t)
      BY <2>2, <1>2 DEF Pending, Touches
    <2> QED BY <2>1, <2>3 DEF RowsInv, LockedSitesAreQuiet
  <1>12. TransitionsHaveTheirJob'
    <2>1. ~Pending(n) /\ Pending(n)'
      BY <1>2 DEF Pending, NoJob
    <2>2. \A j \in JobId : Pending(j) => job[j].site \in Sites
      BY DEF RowsInv, RowsWellFormed, Pending, NoJob
    <2>3. \A j \in JobId : Pending(j) /\ job[j].kind \in StatusKinds => job[j].site # s
      BY <1>3, KindFacts DEF RowsInv, TransitionsHaveTheirJob
    <2>4. site'[s].status = Transit[job'[n].kind] /\ TransitionsHaveTheirJob
      BY <1>1, <1>2, <1>3 DEF RowsInv
    <2> QED BY <1>1, <1>2, <1>3, <2>1, <2>2, <2>3, <2>4, NewOwner
  <1> QED BY <1>2, <1>5, <1>6, <1>7, <1>9, <1>10, <1>11, <1>12 DEF RowsInv

\* EnqueueSiteBackup and SetSiteSnippets: a job that takes no status.
LEMMA NewOrdinary ==
  ASSUME RowsInv, NEW k \in JobKinds \ StatusKinds, NEW s \in Sites,
         InsertJob(k, s, None, None), UNCHANGED <<site, tomb, reservation>>
  PROVE  RowsInv'
  <1>0. PICK n \in Nat : n = lastJob + 1
    BY DEF RowsInv, RowTypes
  <1>1. k \in JobKinds /\ k \notin StatusKinds /\ k \notin LifecycleKinds
        /\ k # "site.restore_clone" /\ k # "site.domain_change"
    BY KindFacts DEF LifecycleKinds
  <1>2. /\ n \in JobId /\ lastJob' = n /\ lastJob' \in 0..MaxJobs
        /\ job' \in [JobId -> JobRow]
        /\ job'[n].kind = k /\ job'[n].site = s /\ job'[n].source = None
        /\ job'[n].status = "queued" /\ job[n] = NoJob
        /\ \A j \in JobId : j # n => job'[j] = job[j]
        /\ RowsWellFormed'
    BY <1>0, <1>1, InsertedRow
  <1>3. site[s].status \notin LockedStatus
    BY <1>1, NoneAssumption DEF InsertJob, LifecycleLock
  <1>4. RowTypes'
    BY <1>2 DEF RowsInv, RowTypes
  <1>5. AbsentSitesHaveNoDomain' /\ DomainsDisjoint'
    BY DEF RowsInv, AbsentSitesHaveNoDomain, DomainsDisjoint
  <1>6. \A r \in reservation : r.job \in JobId /\ r.job # n /\ job'[r.job] = job[r.job]
    <2> SUFFICES ASSUME NEW r \in reservation PROVE r.job \in JobId /\ r.job # n
      BY <1>2
    <2>1. r.job \in JobId /\ r.site \in Sites
      BY DEF RowsInv, RowTypes, Rsv
    <2>2. job[r.job].site = r.site /\ job[n].site = None
      BY <1>2 DEF RowsInv, ReservationHasItsOwner, NoJob
    <2> QED BY <2>1, <2>2, NoneAssumption
  <1>7. ReservationFollowsChange'
    BY <1>6 DEF RowsInv, ReservationFollowsChange
  <1>8. ReservationHasItsOwner'
    BY <1>1, <1>2, <1>6 DEF RowsInv, ReservationHasItsOwner, Pending
  <1>9. LockedSitesAreQuiet'
    <2> SUFFICES ASSUME NEW t \in Sites, NEW j \in JobId, Pending(j)', Touches(j, t)',
                        site[t].status \in LockedStatus
                 PROVE  /\ job'[j].kind \in LifecycleKinds /\ job'[j].site = t
                        /\ site[t].status = Transit[job'[j].kind]
      BY DEF LockedSitesAreQuiet
    <2>1. j # n
      BY <1>2, <1>3, NoneAssumption DEF Touches
    <2>2. job'[j] = job[j] /\ Pending(j) /\ Touches(j, t)
      BY <2>1, <1>2 DEF Pending, Touches
    <2> QED BY <2>2 DEF RowsInv, LockedSitesAreQuiet
  <1>10. TransitionsHaveTheirJob'
    <2>1. ~Pending(n) /\ job'[n].kind \notin StatusKinds
      BY <1>1, <1>2 DEF Pending, NoJob
    <2>2. TransitionsHaveTheirJob /\ UNCHANGED site
      BY DEF RowsInv
    <2>3. \A j \in JobId : Pending(j)' /\ job'[j].kind \in StatusKinds =>
                          Pending(j) /\ job[j].kind \in StatusKinds
      BY <2>1, <1>2 DEF Pending
    <2>4. \A j \in JobId : Pending(j) => Pending(j)' /\ job'[j] = job[j]
      BY <2>1, <1>2 DEF Pending
    <2> QED BY <2>2, <2>3, <2>4, SameOwners
  <1> QED BY <1>2, <1>4, <1>5, <1>7, <1>8, <1>9, <1>10 DEF RowsInv

\* EnqueueSiteTransition and EnqueueSiteDelete: the job takes the status of a
\* site that nothing else is working on and that is not being renamed.
LEMMA NewTransition ==
  ASSUME RowsInv, NEW k \in StatusKinds \ {"site.restore_clone", "site.domain_change"},
         NEW s \in Sites, NEW d \in Domains \cup {None},
         site[s].status \notin LockedStatus \cup {"absent"}, Idle(s),
         SetStatus(s, Transit[k]), InsertJob(k, s, None, d), UNCHANGED <<tomb, reservation>>
  PROVE  RowsInv'
  <1>0. PICK n \in Nat : n = lastJob + 1
    BY DEF RowsInv, RowTypes
  <1>1. /\ k \in JobKinds /\ k \in StatusKinds
        /\ k # "site.restore_clone" /\ k # "site.domain_change"
        /\ Transit[k] \in {"queued", "disabling", "enabling", "deleting"}
        /\ Transit[k] = "deleting" => k \in LifecycleKinds
    BY KindFacts DEF LifecycleKinds
  <1>2. /\ n \in JobId /\ lastJob' = n /\ lastJob' \in 0..MaxJobs
        /\ job' \in [JobId -> JobRow]
        /\ job'[n].kind = k /\ job'[n].site = s /\ job'[n].source = None
        /\ job'[n].status = "queued" /\ job[n] = NoJob
        /\ \A j \in JobId : j # n => job'[j] = job[j]
        /\ RowsWellFormed'
    BY <1>0, <1>1, InsertedRow
  <1>3. /\ site' \in [Sites -> SiteRow]
        /\ site'[s].status = Transit[k] /\ site'[s].domain = site[s].domain
        /\ \A t \in Sites : t # s => site'[t] = site[t]
    <2>1. Transit[k] \in SiteStatus
      BY <1>1 DEF SiteStatus, TransitStatus
    <2> QED BY <2>1 DEF SetStatus, RowsInv, RowTypes, SiteRow
  <1>4. RowTypes'
    BY <1>2, <1>3 DEF RowsInv, RowTypes
  <1>5. \A t \in Sites : site'[t].domain = site[t].domain
    BY <1>3
  <1>6. AbsentSitesHaveNoDomain'
    BY <1>1, <1>3, <1>5 DEF RowsInv, AbsentSitesHaveNoDomain
  <1>7. DomainsDisjoint'
    BY <1>5 DEF RowsInv, DomainsDisjoint
  <1>8. \A r \in reservation : r.job \in JobId /\ r.job # n /\ job'[r.job] = job[r.job]
    <2> SUFFICES ASSUME NEW r \in reservation PROVE r.job \in JobId /\ r.job # n
      BY <1>2
    <2>1. r.job \in JobId /\ r.site \in Sites
      BY DEF RowsInv, RowTypes, Rsv
    <2>2. job[r.job].site = r.site /\ job[n].site = None
      BY <1>2 DEF RowsInv, ReservationHasItsOwner, NoJob
    <2> QED BY <2>1, <2>2, NoneAssumption
  <1>9. ReservationFollowsChange'
    <2>1. \A t \in Sites : site'[t].status \in {"domain_changing", "domain_change_failed"}
                         <=> site[t].status \in {"domain_changing", "domain_change_failed"}
      BY <1>1, <1>3 DEF LockedStatus
    <2> QED BY <2>1, <1>8 DEF RowsInv, ReservationFollowsChange
  <1>10. ReservationHasItsOwner'
    BY <1>1, <1>2, <1>8 DEF RowsInv, ReservationHasItsOwner, Pending
  <1>11. LockedSitesAreQuiet'
    <2> SUFFICES ASSUME NEW t \in Sites, NEW j \in JobId, Pending(j)', Touches(j, t)',
                        site'[t].status \in LockedStatus
                 PROVE  /\ job'[j].kind \in LifecycleKinds /\ job'[j].site = t
                        /\ site'[t].status = Transit[job'[j].kind]
      BY DEF LockedSitesAreQuiet
    <2>1. CASE j = n
      <3>1. t = s
        BY <2>1, <1>2, NoneAssumption DEF Touches
      <3> QED BY <3>1, <2>1, <1>1, <1>2, <1>3 DEF LockedStatus
    <2>2. CASE j # n
      <3>1. job'[j] = job[j] /\ Pending(j) /\ Touches(j, t)
        BY <2>2, <1>2 DEF Pending, Touches
      <3>2. t # s
        BY <3>1 DEF Idle
      <3> QED BY <3>1, <3>2, <1>3 DEF RowsInv, LockedSitesAreQuiet
    <2> QED BY <2>1, <2>2
  <1>12. TransitionsHaveTheirJob'
    <2>1. ~Pending(n) /\ Pending(n)'
      BY <1>2 DEF Pending, NoJob
    <2>2. \A j \in JobId : Pending(j) => job[j].site \in Sites
      BY DEF RowsInv, RowsWellFormed, Pending, NoJob
    <2>3. \A j \in JobId : Pending(j) => job[j].site # s
      BY DEF Idle, Touches
    <2>4. site'[s].status = Transit[job'[n].kind] /\ TransitionsHaveTheirJob
      BY <1>1, <1>2, <1>3 DEF RowsInv
    <2> QED BY <1>1, <1>2, <1>3, <2>1, <2>2, <2>3, <2>4, NewOwner
  <1> QED BY <1>2, <1>4, <1>6, <1>7, <1>9, <1>10, <1>11, <1>12 DEF RowsInv

\* EnqueueDomainChange: the status, the job and the reservation come together.
LEMMA NewDomainChange ==
  ASSUME RowsInv, NEW s \in Sites, NEW d \in Domains, EnqueueDomainChange(s, d)
  PROVE  RowsInv'
  <1>0. PICK n \in Nat : n = lastJob + 1
    BY DEF RowsInv, RowTypes
  <1> DEFINE k == "site.domain_change"
             new == [domain |-> d, site |-> s, job |-> n]
  <1>1. k \in JobKinds /\ k \in StatusKinds /\ k \in LifecycleKinds /\ Transit[k] = "domain_changing"
    BY KindFacts DEF LifecycleKinds
  <1>2. /\ n \in JobId /\ lastJob' = n /\ lastJob' \in 0..MaxJobs
        /\ job' \in [JobId -> JobRow]
        /\ job'[n].kind = k /\ job'[n].site = s /\ job'[n].source = None /\ job'[n].domain = d
        /\ job'[n].status = "queued" /\ job[n] = NoJob
        /\ \A j \in JobId : j # n => job'[j] = job[j]
        /\ RowsWellFormed'
    BY <1>0, <1>1, InsertedRow DEF EnqueueDomainChange
  <1>3. /\ site' \in [Sites -> SiteRow]
        /\ site'[s].status = "domain_changing" /\ site'[s].domain = site[s].domain
        /\ \A t \in Sites : t # s => site'[t] = site[t]
        /\ site[s].status = "active" /\ Idle(s)
    BY DEF EnqueueDomainChange, SetStatus, RowsInv, RowTypes, SiteRow, SiteStatus, TransitStatus
  <1>4. /\ reservation' = reservation \cup {new} /\ tomb' = tomb
        /\ new.domain = d /\ new.site = s /\ new.job = n
        /\ new \in Rsv
    BY <1>0, <1>2 DEF EnqueueDomainChange, Rsv
  <1> HIDE DEF k, new
  <1>5. RowTypes'
    BY <1>2, <1>3, <1>4 DEF RowsInv, RowTypes
  <1>6. \A t \in Sites : site'[t].domain = site[t].domain
    BY <1>3
  <1>7. AbsentSitesHaveNoDomain'
    BY <1>3, <1>6 DEF RowsInv, AbsentSitesHaveNoDomain
  <1>8. \A r \in reservation :
          /\ r.job \in JobId /\ r.job # n /\ job'[r.job] = job[r.job]
          /\ r.site \in Sites /\ r.site # s
    <2> SUFFICES ASSUME NEW r \in reservation
                 PROVE r.job \in JobId /\ r.job # n /\ r.site \in Sites /\ r.site # s
      BY <1>2
    <2>1. r.job \in JobId /\ r.site \in Sites
      BY DEF RowsInv, RowTypes, Rsv
    <2>2. /\ job[r.job].site = r.site /\ job[n].site = None
          /\ job[r.job].kind = "site.domain_change" /\ job[r.job].domain = r.domain
          /\ job[r.job].status \in {"queued", "running", "failed"}
      BY <1>2 DEF RowsInv, ReservationHasItsOwner, NoJob
    <2>3. r.site # s
      BY <2>2, <1>3 DEF RowsInv, ReservationFollowsChange
    <2> QED BY <2>1, <2>2, <2>3, NoneAssumption
  <1>9. DomainsDisjoint'
    <2>1. \A t \in Sites : site[t].domain # d
      BY DEF EnqueueDomainChange, DomainFree
    <2>2. \A r \in reservation : r.domain # d /\ r.site # s
      BY <1>8 DEF EnqueueDomainChange, DomainFree
    <2>3. \A t, u \in Sites : t # u /\ site'[t].domain # None => site'[t].domain # site'[u].domain
      BY <1>6 DEF RowsInv, DomainsDisjoint
    <2>4. \A r \in reservation', t \in Sites : site'[t].domain # r.domain
      BY <1>4, <1>6, <2>1 DEF RowsInv, DomainsDisjoint
    <2>5. \A r, q \in reservation' : r.domain = q.domain \/ r.site = q.site => r = q
      BY <1>4, <2>2 DEF RowsInv, DomainsDisjoint
    <2> QED BY <2>3, <2>4, <2>5 DEF DomainsDisjoint
  <1>10. ReservationFollowsChange'
    <2> SUFFICES ASSUME NEW t \in Sites
                 PROVE site'[t].status \in {"domain_changing", "domain_change_failed"}
                   <=> \E r \in reservation' :
                         /\ r.site = t
                         /\ job'[r.job].kind = "site.domain_change" /\ job'[r.job].site = t
                         /\ job'[r.job].domain = r.domain
                         /\ job'[r.job].status \in {"queued", "running", "failed"}
      BY DEF ReservationFollowsChange
    <2>1. CASE t = s
      BY <2>1, <1>2, <1>3, <1>4 DEF k
    <2>2. CASE t # s
      BY <2>2, <1>3, <1>4, <1>8 DEF RowsInv, ReservationFollowsChange
    <2> QED BY <2>1, <2>2
  <1>11. ReservationHasItsOwner'
    <2>1. \A r \in reservation' :
            /\ job'[r.job].kind = "site.domain_change" /\ job'[r.job].site = r.site
            /\ job'[r.job].domain = r.domain
            /\ job'[r.job].status \in {"queued", "running", "failed"}
      BY <1>2, <1>4, <1>8 DEF RowsInv, ReservationHasItsOwner, k
    <2>2. \A j \in JobId : Pending(j)' /\ job'[j].kind = "site.domain_change" =>
            [domain |-> job'[j].domain, site |-> job'[j].site, job |-> j] \in reservation'
      BY <1>2, <1>4 DEF RowsInv, ReservationHasItsOwner, Pending, new
    <2>3. ASSUME NEW r \in reservation', NEW j \in JobId,
                 job'[j].kind = "site.domain_change", job'[j].site = r.site
          PROVE  j <= r.job
      <3>1. CASE r = new
        <4>1. j <= n
          BY <1>0, <1>2, <2>3, <3>1, <1>4, NoneAssumption
             DEF RowsInv, RowsWellFormed, NoJob, JobId, RowTypes
        <4> QED BY <3>1, <1>4, <4>1
      <3>2. CASE r \in reservation
        BY <3>2, <1>2, <1>8, <2>3 DEF RowsInv, ReservationHasItsOwner
      <3> QED BY <3>1, <3>2, <1>4
    <2> QED BY <2>1, <2>2, <2>3 DEF ReservationHasItsOwner
  <1>12. LockedSitesAreQuiet'
    <2> SUFFICES ASSUME NEW t \in Sites, NEW j \in JobId, Pending(j)', Touches(j, t)',
                        site'[t].status \in LockedStatus
                 PROVE  /\ job'[j].kind \in LifecycleKinds /\ job'[j].site = t
                        /\ site'[t].status = Transit[job'[j].kind]
      BY DEF LockedSitesAreQuiet
    <2>1. CASE j = n
      <3>1. t = s
        BY <2>1, <1>2, NoneAssumption DEF Touches
      <3> QED BY <3>1, <2>1, <1>1, <1>2, <1>3
    <2>2. CASE j # n
      <3>1. job'[j] = job[j] /\ Pending(j) /\ Touches(j, t)
        BY <2>2, <1>2 DEF Pending, Touches
      <3>2. t # s
        BY <3>1, <1>3 DEF Idle
      <3> QED BY <3>1, <3>2, <1>3 DEF RowsInv, LockedSitesAreQuiet
    <2> QED BY <2>1, <2>2
  <1>13. TransitionsHaveTheirJob'
    <2>1. ~Pending(n) /\ Pending(n)'
      BY <1>2 DEF Pending, NoJob
    <2>2. \A j \in JobId : Pending(j) => job[j].site \in Sites
      BY DEF RowsInv, RowsWellFormed, Pending, NoJob
    <2>3. \A j \in JobId : Pending(j) => job[j].site # s
      BY <1>3 DEF Idle, Touches
    <2>4. site'[s].status = Transit[job'[n].kind] /\ TransitionsHaveTheirJob
      BY <1>1, <1>2, <1>3 DEF RowsInv
    <2> QED BY <1>1, <1>2, <1>3, <2>1, <2>2, <2>3, <2>4, NewOwner
  <1> QED BY <1>2, <1>5, <1>7, <1>9, <1>10, <1>11, <1>12, <1>13 DEF RowsInv

\* The newest failed change of a site owns the reservation, so that putting it
\* back does not leave the reservation with another job.
LEMMA Retried ==
  ASSUME RowsInv, NEW s \in Sites,
         NEW k \in LifecycleKinds, NEW failed \in {"domain_change_failed", "delete_failed"},
         failed = "domain_change_failed" <=> k = "site.domain_change",
         RetryFailedLifecycleJob(s, k, failed)
  PROVE  RowsInv'
  <1>1. /\ k \in JobKinds /\ k \in StatusKinds
        /\ Transit[k] = "domain_changing" <=> k = "site.domain_change"
        /\ Transit[k] \in {"domain_changing", "deleting"}
    BY KindFacts DEF LifecycleKinds
  <1>2. PICK n \in JobId :
          /\ job[n].kind = k /\ job[n].site = s /\ job[n].status = "failed"
          /\ \A i \in JobId : job[i].kind = k /\ job[i].site = s /\ job[i].status = "failed" => i <= n
          /\ job' = [job EXCEPT ![n].status = "queued"]
    BY DEF RetryFailedLifecycleJob
  <1>3. /\ job' \in [JobId -> JobRow]
        /\ job'[n].kind = k /\ job'[n].site = s /\ job'[n].status = "queued"
        /\ job'[n].source = job[n].source /\ job'[n].domain = job[n].domain
        /\ \A j \in JobId : j # n => job'[j] = job[j]
    BY <1>2 DEF RowsInv, RowTypes, JobRow, JobStatus
  <1>4. /\ site[s].status = failed /\ Idle(s)
        /\ reservation' = reservation /\ tomb' = tomb /\ lastJob' = lastJob
    BY DEF RetryFailedLifecycleJob
  <1>5. /\ site' \in [Sites -> SiteRow]
        /\ site'[s].status = Transit[k] /\ site'[s].domain = site[s].domain
        /\ \A t \in Sites : t # s => site'[t] = site[t]
    <2>1. Transit[k] \in SiteStatus
      BY <1>1 DEF SiteStatus, TransitStatus
    <2> QED BY <2>1 DEF RetryFailedLifecycleJob, SetStatus, RowsInv, RowTypes, SiteRow
  <1>6. RowTypes'
    BY <1>3, <1>4, <1>5 DEF RowsInv, RowTypes
  <1>7. RowsWellFormed'
    BY <1>2, <1>3, <1>4 DEF RowsInv, RowsWellFormed, NoJob
  <1>8. \A t \in Sites : site'[t].domain = site[t].domain
    BY <1>5
  <1>9. AbsentSitesHaveNoDomain'
    BY <1>1, <1>4, <1>5, <1>8 DEF RowsInv, AbsentSitesHaveNoDomain
  <1>10. DomainsDisjoint'
    BY <1>4, <1>8 DEF RowsInv, DomainsDisjoint
  <1>11. \A r \in reservation : r.job \in JobId /\ r.site \in Sites
    BY DEF RowsInv, RowTypes, Rsv
  <1>12. \A r \in reservation :
           /\ job'[r.job].kind = "site.domain_change" /\ job'[r.job].site = r.site
           /\ job'[r.job].domain = r.domain
           /\ job'[r.job].status \in {"queued", "running", "failed"}
    <2>1. \A j \in JobId : /\ job'[j].kind = job[j].kind /\ job'[j].site = job[j].site
                          /\ job'[j].domain = job[j].domain
                          /\ job'[j].status \in {job[j].status, "queued"}
      BY <1>2, <1>3
    <2> QED BY <2>1, <1>11 DEF RowsInv, ReservationHasItsOwner
  <1>13. ReservationFollowsChange'
    <2>1. \A t \in Sites : site'[t].status \in {"domain_changing", "domain_change_failed"}
                         <=> site[t].status \in {"domain_changing", "domain_change_failed"}
      BY <1>1, <1>4, <1>5
    <2>2. \A r \in reservation :
            /\ job[r.job].kind = "site.domain_change" /\ job[r.job].site = r.site
            /\ job[r.job].domain = r.domain
            /\ job[r.job].status \in {"queued", "running", "failed"}
      BY DEF RowsInv, ReservationHasItsOwner
    <2> QED BY <2>1, <2>2, <1>12, <1>4 DEF RowsInv, ReservationFollowsChange
  <1>14. ReservationHasItsOwner'
    <2>1. ASSUME k = "site.domain_change"
          PROVE  [domain |-> job[n].domain, site |-> s, job |-> n] \in reservation
      <3>1. PICK r \in reservation :
              /\ r.site = s /\ job[r.job].kind = "site.domain_change" /\ job[r.job].site = s
              /\ job[r.job].domain = r.domain
              /\ job[r.job].status \in {"queued", "running", "failed"}
        BY <1>4, <2>1 DEF RowsInv, ReservationFollowsChange
      <3>2. r.job \in JobId /\ r \in Rsv
        BY <1>11 DEF RowsInv, RowTypes
      <3>3. job[r.job].status = "failed"
        BY <3>1, <3>2, <1>4 DEF Idle, Pending, Touches
      <3>4. r.job <= n
        BY <3>1, <3>2, <3>3, <1>2, <2>1
      <3>5. n <= r.job
        BY <1>2, <2>1, <3>1 DEF RowsInv, ReservationHasItsOwner
      <3>6. n = r.job
        BY <3>2, <3>4, <3>5 DEF JobId
      <3> QED BY <3>1, <3>2, <3>6 DEF Rsv
    <2>2. \A j \in JobId : Pending(j)' /\ job'[j].kind = "site.domain_change" =>
            [domain |-> job'[j].domain, site |-> job'[j].site, job |-> j] \in reservation'
      BY <1>3, <1>4, <2>1 DEF RowsInv, ReservationHasItsOwner, Pending
    <2>3. \A r \in reservation', j \in JobId :
            job'[j].kind = "site.domain_change" /\ job'[j].site = r.site => j <= r.job
      BY <1>2, <1>3, <1>4 DEF RowsInv, ReservationHasItsOwner
    <2> QED BY <1>4, <1>12, <2>2, <2>3 DEF ReservationHasItsOwner
  <1>15. LockedSitesAreQuiet'
    <2> SUFFICES ASSUME NEW t \in Sites, NEW j \in JobId, Pending(j)', Touches(j, t)',
                        site'[t].status \in LockedStatus
                 PROVE  /\ job'[j].kind \in LifecycleKinds /\ job'[j].site = t
                        /\ site'[t].status = Transit[job'[j].kind]
      BY DEF LockedSitesAreQuiet
    <2>1. CASE j = n
      <3>1. t = s
        <4>1. t = s \/ t = job[n].source
          BY <2>1, <1>3 DEF Touches
        <4>2. job[n].source = None
          BY <1>2 DEF RowsInv, RowsWellFormed, NoJob, LifecycleKinds
        <4> QED BY <4>1, <4>2, NoneAssumption
      <3> QED BY <3>1, <2>1, <1>3, <1>5
    <2>2. CASE j # n
      <3>1. job'[j] = job[j] /\ Pending(j) /\ Touches(j, t)
        BY <2>2, <1>3 DEF Pending, Touches
      <3>2. t # s
        BY <3>1, <1>4 DEF Idle
      <3> QED BY <3>1, <3>2, <1>5 DEF RowsInv, LockedSitesAreQuiet
    <2> QED BY <2>1, <2>2
  <1>16. TransitionsHaveTheirJob'
    <2>1. ~Pending(n) /\ Pending(n)'
      BY <1>2, <1>3 DEF Pending
    <2>2. \A j \in JobId : Pending(j) => job[j].site \in Sites
      BY DEF RowsInv, RowsWellFormed, Pending, NoJob
    <2>3. \A j \in JobId : Pending(j) => job[j].site # s
      BY <1>4 DEF Idle, Touches
    <2>4. site'[s].status = Transit[job'[n].kind] /\ TransitionsHaveTheirJob
      BY <1>3, <1>5 DEF RowsInv
    <2> QED BY <1>1, <1>3, <1>5, <2>1, <2>2, <2>3, <2>4, NewOwner
  <1> QED BY <1>6, <1>7, <1>9, <1>10, <1>13, <1>14, <1>15, <1>16 DEF RowsInv

-----------------------------------------------------------------------------
(* The worker keeps them consistent too. *)

\* Claiming, requeuing and retrying move pending rows between queued and running.
LEMMA Requeued ==
  ASSUME RowsInv, UNCHANGED <<site, tomb, reservation, lastJob>>,
         job' \in [JobId -> JobRow],
         \A j \in JobId :
           \/ job'[j] = job[j]
           \/ /\ job[j].status \in {"queued", "running"} /\ job'[j].status \in {"queued", "running"}
              /\ job'[j].kind = job[j].kind /\ job'[j].site = job[j].site
              /\ job'[j].source = job[j].source /\ job'[j].domain = job[j].domain
  PROVE  RowsInv'
  <1>1. \A j \in JobId :
          /\ job'[j].kind = job[j].kind /\ job'[j].site = job[j].site
          /\ job'[j].source = job[j].source /\ job'[j].domain = job[j].domain
          /\ Pending(j)' <=> Pending(j)
          /\ job'[j].status = job[j].status \/ job'[j].status \in {"queued", "running"}
    BY DEF Pending
  <1>2. RowTypes' /\ AbsentSitesHaveNoDomain' /\ DomainsDisjoint'
    BY DEF RowsInv, RowTypes, AbsentSitesHaveNoDomain, DomainsDisjoint
  <1>3. RowsWellFormed'
    BY DEF RowsInv, RowsWellFormed, NoJob
  <1>4. \A r \in reservation :
          /\ r.job \in JobId
          /\ job'[r.job].kind = "site.domain_change" /\ job'[r.job].site = r.site
          /\ job'[r.job].domain = r.domain
          /\ job'[r.job].status \in {"queued", "running", "failed"}
    <2>1. \A r \in reservation : r.job \in JobId
      BY DEF RowsInv, RowTypes, Rsv
    <2> QED BY <2>1, <1>1 DEF RowsInv, ReservationHasItsOwner
  <1>5. ReservationFollowsChange'
    <2>1. \A t \in Sites : (\E r \in reservation : r.site = t) <=>
             site[t].status \in {"domain_changing", "domain_change_failed"}
      BY DEF RowsInv, ReservationFollowsChange, ReservationHasItsOwner
    <2> QED BY <2>1, <1>4 DEF ReservationFollowsChange
  <1>6. ReservationHasItsOwner'
    <2>1. \A j \in JobId : Pending(j)' /\ job'[j].kind = "site.domain_change" =>
            [domain |-> job'[j].domain, site |-> job'[j].site, job |-> j] \in reservation'
      BY <1>1 DEF RowsInv, ReservationHasItsOwner
    <2>2. \A r \in reservation', j \in JobId :
            job'[j].kind = "site.domain_change" /\ job'[j].site = r.site => j <= r.job
      BY <1>1 DEF RowsInv, ReservationHasItsOwner
    <2> QED BY <1>4, <2>1, <2>2 DEF ReservationHasItsOwner
  <1>7. LockedSitesAreQuiet'
    BY <1>1 DEF RowsInv, LockedSitesAreQuiet, Touches
  <1>8. TransitionsHaveTheirJob'
    <2>1. TransitionsHaveTheirJob /\ UNCHANGED site
      BY DEF RowsInv
    <2> QED BY <1>1, <2>1, SameOwners
  <1> QED BY <1>2, <1>3, <1>5, <1>6, <1>7, <1>8 DEF RowsInv

\* What closing a running row does to the table, whatever becomes of its site.
LEMMA ClosedRow ==
  ASSUME RowsInv, NEW n \in JobId, job[n].status = "running",
         NEW ok \in BOOLEAN, Close(n, ok), lastJob' = lastJob
  PROVE  /\ job' \in [JobId -> JobRow]
         /\ job'[n].kind = job[n].kind /\ job'[n].site = job[n].site
         /\ job'[n].source = job[n].source /\ job'[n].domain = job[n].domain
         /\ job'[n].status = IF ok THEN "succeeded" ELSE "failed"
         /\ \A j \in JobId : j # n => job'[j] = job[j]
         /\ RowsWellFormed'
  <1>1. /\ job' \in [JobId -> JobRow]
        /\ job'[n].kind = job[n].kind /\ job'[n].site = job[n].site
        /\ job'[n].source = job[n].source /\ job'[n].domain = job[n].domain
        /\ job'[n].status = IF ok THEN "succeeded" ELSE "failed"
        /\ \A j \in JobId : j # n => job'[j] = job[j]
    BY DEF Close, RowsInv, RowTypes, JobRow, JobStatus
  <1>2. n <= lastJob
    BY DEF RowsInv, RowsWellFormed, NoJob
  <1> QED BY <1>1, <1>2 DEF RowsInv, RowsWellFormed, NoJob

\* An ordinary job is closed.
LEMMA ClosedOrdinary ==
  ASSUME RowsInv, NEW n \in JobId, job[n].status = "running",
         job[n].kind \in JobKinds \ StatusKinds,
         NEW ok \in BOOLEAN, Close(n, ok), UNCHANGED <<site, tomb, reservation, lastJob>>
  PROVE  RowsInv'
  <1>1. /\ job' \in [JobId -> JobRow] /\ RowsWellFormed'
        /\ job'[n].kind = job[n].kind
        /\ job'[n].status \in {"succeeded", "failed"}
        /\ \A j \in JobId : j # n => job'[j] = job[j]
    BY ClosedRow
  <1>2. job[n].kind \notin StatusKinds /\ job[n].kind # "site.domain_change"
    BY KindFacts
  <1>3. RowTypes' /\ AbsentSitesHaveNoDomain' /\ DomainsDisjoint'
    BY <1>1 DEF RowsInv, RowTypes, AbsentSitesHaveNoDomain, DomainsDisjoint
  <1>4. \A r \in reservation : r.job \in JobId /\ job'[r.job] = job[r.job]
    <2>1. \A r \in reservation : r.job \in JobId /\ job[r.job].kind = "site.domain_change"
      BY DEF RowsInv, RowTypes, Rsv, ReservationHasItsOwner
    <2> QED BY <2>1, <1>1, <1>2
  <1>5. ReservationFollowsChange'
    BY <1>4 DEF RowsInv, ReservationFollowsChange
  <1>6. ReservationHasItsOwner'
    BY <1>1, <1>2, <1>4 DEF RowsInv, ReservationHasItsOwner, Pending
  <1>7. \A j \in JobId : Pending(j)' => Pending(j) /\ job'[j] = job[j]
    BY <1>1 DEF Pending
  <1>8. LockedSitesAreQuiet'
    BY <1>7 DEF RowsInv, LockedSitesAreQuiet, Touches
  <1>9. TransitionsHaveTheirJob'
    <2>1. TransitionsHaveTheirJob /\ UNCHANGED site
      BY DEF RowsInv
    <2>2. \A j \in JobId : Pending(j) /\ job[j].kind \in StatusKinds =>
            Pending(j)' /\ job'[j].kind = job[j].kind /\ job'[j].site = job[j].site
      BY <1>1, <1>2 DEF Pending
    <2> QED BY <1>7, <2>1, <2>2, SameOwners
  <1> QED BY <1>1, <1>3, <1>5, <1>6, <1>8, <1>9 DEF RowsInv

\* A status job is closed: its site still had the status the job holds, and no
\* other job was waiting for it.
LEMMA ClosedStatus ==
  ASSUME RowsInv, NEW n \in JobId, NEW s \in Sites, job[n].status = "running",
         job[n].kind \in StatusKinds, job[n].site = s,
         NEW ok \in BOOLEAN, Close(n, ok), lastJob' = lastJob,
         site' \in [Sites -> SiteRow],
         \A t \in Sites : t # s => site'[t] = site[t],
         site[s].status = Transit[job[n].kind] =>
           /\ site'[s].status \notin TransitStatus
           /\ site'[s].status \in LockedStatus => site[s].status \in LockedStatus
  PROVE  /\ LockedSitesAreQuiet' /\ TransitionsHaveTheirJob'
         /\ \A j \in JobId : Pending(j)' => Pending(j) /\ job'[j] = job[j] /\ j # n
         /\ \A j \in JobId : Pending(j)' /\ job'[j].kind \in StatusKinds => job'[j].site # s
  <1>1. /\ job'[n].status \in {"succeeded", "failed"}
        /\ \A j \in JobId : j # n => job'[j] = job[j]
    BY ClosedRow
  <1>2. Pending(n) /\ ~Pending(n)'
    BY <1>1 DEF Pending
  <1>3. site[s].status = Transit[job[n].kind]
    BY <1>2 DEF RowsInv, TransitionsHaveTheirJob
  <1>4. \A j \in JobId : Pending(j)' => Pending(j) /\ job'[j] = job[j] /\ j # n
    BY <1>1 DEF Pending
  <1>5. \A j \in JobId : Pending(j) => job[j].site \in Sites
    BY DEF RowsInv, RowsWellFormed, Pending, NoJob
  <1>6. TransitionsHaveTheirJob
    BY DEF RowsInv
  <1>7. TransitionsHaveTheirJob'
        /\ \A j \in JobId : Pending(j)' /\ job'[j].kind \in StatusKinds => job'[j].site # s
    BY <1>1, <1>2, <1>3, <1>5, <1>6, OwnerLeaves
  <1>8. LockedSitesAreQuiet'
    <2> SUFFICES ASSUME NEW t \in Sites, NEW j \in JobId, Pending(j)', Touches(j, t)',
                        site'[t].status \in LockedStatus
                 PROVE  /\ job'[j].kind \in LifecycleKinds /\ job'[j].site = t
                        /\ site'[t].status = Transit[job'[j].kind]
      BY DEF LockedSitesAreQuiet
    <2>1. Pending(j) /\ job'[j] = job[j] /\ Touches(j, t)
      BY <1>4 DEF Touches
    <2>2. site[t].status \in LockedStatus
      BY <1>3
    <2>3. /\ job[j].kind \in LifecycleKinds /\ job[j].site = t
          /\ site[t].status = Transit[job[j].kind]
      BY <2>1, <2>2 DEF RowsInv, LockedSitesAreQuiet
    <2>4. t # s
      BY <1>7, <2>1, <2>3, KindFacts DEF LifecycleKinds
    <2> QED BY <2>1, <2>3, <2>4
  <1> QED BY <1>4, <1>7, <1>8

\* FinishTransition on a row that is running.
LEMMA ClosedTransition ==
  ASSUME RowsInv, NEW w \in Workers, worker[w].job \in JobId, FinishTransition(w)
  PROVE  RowsInv'
  <1>1. PICK n \in JobId : n = worker[w].job
    OBVIOUS
  <1>2. PICK s : s = job[n].site
    OBVIOUS
  <1>3. PICK ok \in BOOLEAN : ok = (worker[w].reply = "ok")
    OBVIOUS
  <1>4. UNCHANGED <<tomb, reservation, lastJob>> /\ job[n].kind \in StatusKinds \ LifecycleKinds
    BY <1>1 DEF FinishTransition, Finishing
  <1>5. CASE job[n].status # "running"
    <2>1. UNCHANGED <<job, site>>
      BY <1>1, <1>5 DEF FinishTransition
    <2>2. job \in [JobId -> JobRow]
      BY DEF RowsInv, RowTypes
    <2> QED BY <2>1, <2>2, <1>4, Requeued
  <1>6. CASE job[n].status = "running"
    <2>1. s \in Sites
      BY <1>2, <1>6 DEF RowsInv, RowsWellFormed, NoJob
    <2>2. Close(n, ok)
      BY <1>1, <1>3, <1>6 DEF FinishTransition
    <2>3. Pending(n)
      BY <1>6 DEF Pending
    <2>4. /\ site[s].status = Transit[job[n].kind]
          /\ site[s].status \in {"queued", "disabling", "enabling"}
      <3>1. site[s].status = Transit[job[n].kind]
        BY <1>2, <1>4, <2>3 DEF RowsInv, TransitionsHaveTheirJob
      <3> QED BY <3>1, <1>4, KindFacts DEF LifecycleKinds
    <2>5. PICK new \in {"disabled", "disable_failed", "active", "enable_failed", "failed"} :
            SetStatus(s, new)
      <3>1. site[s].status # "absent"
        BY <2>4
      <3> QED BY <1>1, <1>2, <1>6, <3>1 DEF FinishTransition, TransitionOutcome
    <2>6. /\ site' \in [Sites -> SiteRow]
          /\ site'[s].status = new /\ site'[s].domain = site[s].domain
          /\ \A t \in Sites : t # s => site'[t] = site[t]
      <3>1. new \in SiteStatus
        BY DEF SiteStatus
      <3> QED BY <2>1, <2>5, <3>1 DEF SetStatus, RowsInv, RowTypes, SiteRow
    <2>7. new \notin TransitStatus /\ new \notin LockedStatus
      BY DEF TransitStatus, LockedStatus
    <2>8. /\ LockedSitesAreQuiet' /\ TransitionsHaveTheirJob'
          /\ \A j \in JobId : Pending(j)' => Pending(j) /\ job'[j] = job[j]
      BY <1>2, <1>4, <1>6, <2>1, <2>2, <2>6, <2>7, ClosedStatus
    <2>9. /\ job' \in [JobId -> JobRow] /\ RowsWellFormed'
          /\ job'[n].kind = job[n].kind
          /\ \A j \in JobId : j # n => job'[j] = job[j]
      BY <1>4, <1>6, <2>2, ClosedRow
    <2>10. RowTypes'
      BY <1>4, <2>6, <2>9 DEF RowsInv, RowTypes
    <2>11. AbsentSitesHaveNoDomain'
      BY <2>4, <2>6 DEF RowsInv, AbsentSitesHaveNoDomain
    <2>12. DomainsDisjoint'
      <3>1. \A t \in Sites : site'[t].domain = site[t].domain
        BY <2>6
      <3> QED BY <3>1, <1>4 DEF RowsInv, DomainsDisjoint
    <2>13. \A r \in reservation : r.job \in JobId /\ job'[r.job] = job[r.job]
      <3>1. \A r \in reservation : r.job \in JobId /\ job[r.job].kind = "site.domain_change"
        BY DEF RowsInv, RowTypes, Rsv, ReservationHasItsOwner
      <3> QED BY <3>1, <1>4, <2>9 DEF LifecycleKinds
    <2>14. ReservationFollowsChange'
      <3>1. \A t \in Sites : site'[t].status \in {"domain_changing", "domain_change_failed"}
                           <=> site[t].status \in {"domain_changing", "domain_change_failed"}
        BY <2>4, <2>6
      <3> QED BY <3>1, <2>13, <1>4 DEF RowsInv, ReservationFollowsChange
    <2>15. ReservationHasItsOwner'
      <3>1. \A j \in JobId : job'[j].kind = "site.domain_change" => job'[j] = job[j]
        BY <1>4, <2>9 DEF LifecycleKinds
      <3> QED BY <3>1, <1>4, <2>13 DEF RowsInv, ReservationHasItsOwner, Pending
    <2> QED BY <2>8, <2>9, <2>10, <2>11, <2>12, <2>14, <2>15 DEF RowsInv
  <1> QED BY <1>5, <1>6

\* The change's own row is closed: its reservation goes if and only if the host
\* has confirmed a domain, and the confirmed domain was kept free for it.
LEMMA ClosedDomainChange ==
  ASSUME RowsInv, NEW w \in Workers, worker[w].job \in JobId, FinishDomainChange(w)
  PROVE  RowsInv'
  <1>1. PICK n \in JobId : n = worker[w].job
    OBVIOUS
  <1>2. PICK s : s = job[n].site
    OBVIOUS
  <1>3. PICK d : d = job[n].domain
    OBVIOUS
  <1>4. PICK reply : reply = worker[w].reply
    OBVIOUS
  <1>5. UNCHANGED <<tomb, lastJob>> /\ job[n].kind = "site.domain_change"
    BY <1>1 DEF FinishDomainChange, Finishing
  <1>6. CASE job[n].status # "running"
    <2>1. UNCHANGED <<job, site, reservation>>
      BY <1>1, <1>6 DEF FinishDomainChange
    <2>2. job \in [JobId -> JobRow]
      BY DEF RowsInv, RowTypes
    <2> QED BY <2>1, <2>2, <1>5, Requeued
  <1>7. CASE job[n].status = "running"
    <2>1. s \in Sites
      BY <1>2, <1>7 DEF RowsInv, RowsWellFormed, NoJob
    <2>2. Pending(n)
      BY <1>7 DEF Pending
    <2>3. site[s].status = "domain_changing"
      BY <1>2, <1>5, <2>2, KindFacts DEF RowsInv, TransitionsHaveTheirJob
    <2> DEFINE own == [domain |-> d, site |-> s, job |-> n]
    <2>4. own \in reservation /\ own.domain = d /\ own.site = s /\ own.job = n
      BY <1>2, <1>3, <1>5, <2>2 DEF RowsInv, ReservationHasItsOwner
    <2>5. d \in Domains /\ d # None
      <3>1. own \in Rsv
        BY <2>4 DEF RowsInv, RowTypes
      <3> QED BY <3>1, NoneAssumption DEF Rsv
    <2> HIDE DEF own
    <2>6. {q \in reservation : q.site = s /\ q.job = n} = {own}
      BY <2>4 DEF RowsInv, DomainsDisjoint
    <2>7. /\ Close(n, reply = "ok")
          /\ reservation' = IF reply \in {"ok", "restored"} THEN reservation \ {own} ELSE reservation
          /\ site' = CASE reply = "ok" -> [site EXCEPT ![s] = [status |-> "active", domain |-> d]]
                       [] reply = "restored" -> [site EXCEPT ![s].status = "active"]
                       [] OTHER -> [site EXCEPT ![s].status = "domain_change_failed"]
      BY <1>1, <1>2, <1>3, <1>4, <1>7, <2>3, <2>4, <2>6 DEF FinishDomainChange, HostSettled
    <2>8. PICK ok \in BOOLEAN : ok = (reply = "ok")
      OBVIOUS
    <2>9. /\ site' \in [Sites -> SiteRow]
          /\ \A t \in Sites : t # s => site'[t] = site[t]
          /\ site'[s].status = IF reply \in {"ok", "restored"} THEN "active" ELSE "domain_change_failed"
          /\ site'[s].domain = IF reply = "ok" THEN d ELSE site[s].domain
      BY <2>1, <2>5, <2>7 DEF RowsInv, RowTypes, SiteRow, SiteStatus, TransitStatus
    <2>10. /\ LockedSitesAreQuiet' /\ TransitionsHaveTheirJob'
           /\ \A j \in JobId : Pending(j)' => Pending(j) /\ job'[j] = job[j] /\ j # n
           /\ \A j \in JobId : Pending(j)' /\ job'[j].kind \in StatusKinds => job'[j].site # s
      <3>1. Close(n, ok)
        BY <2>7, <2>8
      <3>2. /\ site'[s].status \notin TransitStatus
            /\ site[s].status \in LockedStatus
        BY <2>3, <2>9 DEF TransitStatus, LockedStatus
      <3> QED BY <1>2, <1>5, <1>7, <2>1, <2>9, <3>1, <3>2, KindFacts, ClosedStatus
    <2>11. /\ job' \in [JobId -> JobRow] /\ RowsWellFormed'
           /\ job'[n].kind = job[n].kind /\ job'[n].site = s /\ job'[n].domain = d
           /\ job'[n].status = IF reply = "ok" THEN "succeeded" ELSE "failed"
           /\ \A j \in JobId : j # n => job'[j] = job[j]
      <3>1. Close(n, ok)
        BY <2>7, <2>8
      <3> QED BY <1>2, <1>3, <1>5, <1>7, <2>8, <3>1, ClosedRow
    <2>12. /\ \A r \in reservation : r.job \in JobId /\ r.site \in Sites
           /\ \A r \in reservation : r # own => r.site # s /\ r.domain # d /\ r.job # n
      <3>1. \A r \in reservation : r.job \in JobId /\ r.site \in Sites
        BY DEF RowsInv, RowTypes, Rsv
      <3>2. \A r \in reservation : r # own => r.site # s /\ r.domain # d
        BY <2>4 DEF RowsInv, DomainsDisjoint
      <3> QED BY <1>2, <3>1, <3>2 DEF RowsInv, ReservationHasItsOwner
    <2>13. reservation' \subseteq reservation
           /\ (own \in reservation' <=> reply \notin {"ok", "restored"})
           /\ \A r \in reservation : r # own => r \in reservation'
      BY <2>4, <2>7
    <2>14. RowTypes'
      BY <1>5, <2>9, <2>11, <2>13 DEF RowsInv, RowTypes
    <2>15. AbsentSitesHaveNoDomain'
      BY <2>3, <2>5, <2>9 DEF RowsInv, AbsentSitesHaveNoDomain
    <2>16. DomainsDisjoint'
      <3>1. \A t \in Sites : site[t].domain # d
        BY <2>4 DEF RowsInv, DomainsDisjoint
      <3>2. ASSUME NEW t \in Sites, NEW u \in Sites, t # u, site'[t].domain # None
            PROVE  site'[t].domain # site'[u].domain
        BY <3>1, <3>2, <2>9 DEF RowsInv, DomainsDisjoint
      <3>3. ASSUME NEW r \in reservation', NEW t \in Sites
            PROVE  site'[t].domain # r.domain
        BY <3>3, <2>4, <2>9, <2>12, <2>13 DEF RowsInv, DomainsDisjoint
      <3>4. \A r, q \in reservation' : r.domain = q.domain \/ r.site = q.site => r = q
        BY <2>13 DEF RowsInv, DomainsDisjoint
      <3> QED BY <3>2, <3>3, <3>4 DEF DomainsDisjoint
    <2>17. \A r \in reservation' :
             /\ job'[r.job].kind = "site.domain_change" /\ job'[r.job].site = r.site
             /\ job'[r.job].domain = r.domain
             /\ job'[r.job].status \in {"queued", "running", "failed"}
      <3> SUFFICES ASSUME NEW r \in reservation'
                   PROVE  /\ job'[r.job].kind = "site.domain_change" /\ job'[r.job].site = r.site
                          /\ job'[r.job].domain = r.domain
                          /\ job'[r.job].status \in {"queued", "running", "failed"}
        OBVIOUS
      <3>1. CASE r = own
        BY <3>1, <1>5, <2>4, <2>11, <2>13
      <3>2. CASE r # own
        BY <3>2, <2>11, <2>12, <2>13 DEF RowsInv, ReservationHasItsOwner
      <3> QED BY <3>1, <3>2
    <2>18. ReservationFollowsChange'
      <3>1. ASSUME NEW t \in Sites
            PROVE  site'[t].status \in {"domain_changing", "domain_change_failed"}
                     <=> \E r \in reservation' : r.site = t
        <4>1. site[t].status \in {"domain_changing", "domain_change_failed"}
                <=> \E r \in reservation : r.site = t
          BY DEF RowsInv, ReservationFollowsChange, ReservationHasItsOwner
        <4>2. CASE t = s
          BY <4>2, <2>4, <2>9, <2>12, <2>13
        <4>3. CASE t # s
          BY <4>1, <4>3, <2>4, <2>9, <2>13
        <4> QED BY <4>2, <4>3
      <3> QED BY <3>1, <2>17 DEF ReservationFollowsChange
    <2>19. ReservationHasItsOwner'
      <3>1. ASSUME NEW j \in JobId, Pending(j)', job'[j].kind = "site.domain_change"
            PROVE  [domain |-> job'[j].domain, site |-> job'[j].site, job |-> j] \in reservation'
        <4>1. /\ Pending(j) /\ job'[j] = job[j] /\ j # n
          BY <3>1, <2>10
        <4> DEFINE its == [domain |-> job[j].domain, site |-> job[j].site, job |-> j]
        <4>2. job[j].kind = "site.domain_change"
          BY <3>1, <4>1
        <4>3. its \in reservation
          BY <4>1, <4>2 DEF RowsInv, ReservationHasItsOwner
        <4>4. its.job = j
          OBVIOUS
        <4> HIDE DEF its
        <4>5. its \in reservation'
          BY <4>1, <4>3, <4>4, <2>4, <2>13
        <4>6. its = [domain |-> job'[j].domain, site |-> job'[j].site, job |-> j]
          BY <4>1 DEF its
        <4> QED BY <4>5, <4>6
      <3>2. \A r \in reservation', j \in JobId :
              job'[j].kind = "site.domain_change" /\ job'[j].site = r.site => j <= r.job
        BY <1>2, <2>11, <2>13 DEF RowsInv, ReservationHasItsOwner
      <3> QED BY <3>1, <3>2, <2>17 DEF ReservationHasItsOwner
    <2> QED BY <2>10, <2>11, <2>14, <2>15, <2>16, <2>18, <2>19 DEF RowsInv
  <1> QED BY <1>6, <1>7

\* FinishSiteDelete on a row that is running.
LEMMA ClosedDelete ==
  ASSUME RowsInv, NEW w \in Workers, worker[w].job \in JobId, FinishSiteDelete(w)
  PROVE  RowsInv'
  <1>1. PICK n \in JobId : n = worker[w].job
    OBVIOUS
  <1>2. PICK s : s = job[n].site
    OBVIOUS
  <1>3. PICK ok \in BOOLEAN : ok = (worker[w].reply = "ok")
    OBVIOUS
  <1>4. UNCHANGED <<reservation, lastJob>> /\ job[n].kind = "site.delete"
    BY <1>1 DEF FinishSiteDelete, Finishing
  <1>5. CASE UNCHANGED <<job, site, tomb>>
    <2>1. job \in [JobId -> JobRow]
      BY DEF RowsInv, RowTypes
    <2> QED BY <2>1, <1>4, <1>5, Requeued
  <1>6. CASE ~UNCHANGED <<job, site, tomb>>
    <2>1. job[n].status = "running" /\ s \in Sites
      <3>1. job[n].status = "running"
        BY <1>1, <1>6 DEF FinishSiteDelete
      <3> QED BY <3>1, <1>2 DEF RowsInv, RowsWellFormed, NoJob
    <2>2. Pending(n)
      BY <2>1 DEF Pending
    <2>3. site[s].status = "deleting"
      BY <1>2, <1>4, <2>2, KindFacts DEF RowsInv, TransitionsHaveTheirJob
    <2>4. /\ Close(n, ok)
          /\ tomb' = IF ok THEN tomb \cup {s} ELSE tomb
          /\ site' = IF ok THEN [site EXCEPT ![s] = NoRow]
                     ELSE [site EXCEPT ![s].status = "delete_failed"]
      BY <1>1, <1>2, <1>3, <1>6, <2>3 DEF FinishSiteDelete
    <2>5. /\ site' \in [Sites -> SiteRow]
          /\ \A t \in Sites : t # s => site'[t] = site[t]
          /\ site'[s].status = IF ok THEN "absent" ELSE "delete_failed"
          /\ site'[s].domain = IF ok THEN None ELSE site[s].domain
      BY <2>1, <2>4 DEF RowsInv, RowTypes, SiteRow, SiteStatus, TransitStatus, NoRow
    <2>6. /\ LockedSitesAreQuiet' /\ TransitionsHaveTheirJob'
          /\ \A j \in JobId : Pending(j)' => Pending(j) /\ job'[j] = job[j]
      <3>1. /\ site'[s].status \notin TransitStatus
            /\ site[s].status \in LockedStatus
        BY <2>3, <2>5 DEF TransitStatus, LockedStatus
      <3> QED BY <1>2, <1>4, <2>1, <2>4, <2>5, <3>1, KindFacts, ClosedStatus
    <2>7. /\ job' \in [JobId -> JobRow] /\ RowsWellFormed'
          /\ job'[n].kind = job[n].kind
          /\ \A j \in JobId : j # n => job'[j] = job[j]
      BY <1>4, <2>1, <2>4, ClosedRow
    <2>8. RowTypes'
      BY <1>4, <2>1, <2>4, <2>5, <2>7 DEF RowsInv, RowTypes
    <2>9. AbsentSitesHaveNoDomain'
      BY <2>3, <2>5 DEF RowsInv, AbsentSitesHaveNoDomain
    <2>10. DomainsDisjoint'
      <3>1. \A t \in Sites : site'[t].domain \in {site[t].domain, None}
        BY <2>5
      <3>2. \A r \in reservation : r.domain # None
        BY NoneAssumption DEF RowsInv, RowTypes, Rsv
      <3> QED BY <3>1, <3>2, <1>4 DEF RowsInv, DomainsDisjoint
    <2>11. \A r \in reservation : r.job \in JobId /\ job'[r.job] = job[r.job]
      <3>1. \A r \in reservation : r.job \in JobId /\ job[r.job].kind = "site.domain_change"
        BY DEF RowsInv, RowTypes, Rsv, ReservationHasItsOwner
      <3> QED BY <3>1, <1>4, <2>7
    <2>12. ReservationFollowsChange'
      <3>1. \A t \in Sites : site'[t].status \in {"domain_changing", "domain_change_failed"}
                           <=> site[t].status \in {"domain_changing", "domain_change_failed"}
        BY <2>3, <2>5
      <3> QED BY <3>1, <2>11, <1>4 DEF RowsInv, ReservationFollowsChange
    <2>13. ReservationHasItsOwner'
      <3>1. \A j \in JobId : job'[j].kind = "site.domain_change" => job'[j] = job[j]
        BY <1>4, <2>7
      <3> QED BY <3>1, <1>4, <2>11 DEF RowsInv, ReservationHasItsOwner, Pending
    <2> QED BY <2>6, <2>7, <2>8, <2>9, <2>10, <2>12, <2>13 DEF RowsInv
  <1> QED BY <1>5, <1>6

-----------------------------------------------------------------------------
(* What workers and the broker hold. *)

\* What a sequence is without one of its elements.
LEMMA RemoveAtProperties ==
  ASSUME NEW S, NEW q \in Seq(S), NEW i \in 1..Len(q)
  PROVE  /\ RemoveAt(q, i) \in Seq(S)
         /\ Len(RemoveAt(q, i)) = Len(q) - 1
         /\ \A k \in 1..(Len(q) - 1) : RemoveAt(q, i)[k] = IF k < i THEN q[k] ELSE q[k + 1]
  <1> DEFINE front == SubSeq(q, 1, i - 1)
             back  == SubSeq(q, i + 1, Len(q))
  <1>1. front \in Seq(S) /\ Len(front) = i - 1 /\ \A k \in 1..(i - 1) : front[k] = q[k]
    BY SubSeqProperties
  <1>2. /\ back \in Seq(S) /\ Len(back) = Len(q) - i
        /\ \A k \in 1..(Len(q) - i) : back[k] = q[i + k]
    BY SubSeqProperties
  <1>3. RemoveAt(q, i) = front \o back
    BY DEF RemoveAt
  <1> HIDE DEF front, back
  <1>4. /\ front \o back \in Seq(S) /\ Len(front \o back) = Len(q) - 1
        /\ \A k \in 1..(Len(q) - 1) :
             (front \o back)[k] = IF k <= Len(front) THEN front[k] ELSE back[k - Len(front)]
    BY <1>1, <1>2, ConcatProperties
  <1>5. ASSUME NEW k \in 1..(Len(q) - 1)
        PROVE  (front \o back)[k] = IF k < i THEN q[k] ELSE q[k + 1]
    BY <1>1, <1>2, <1>4
  <1> QED BY <1>3, <1>4, <1>5

\* The requests that may be pending: those that name an existing row.
Sent == {q \in Request : q.job \in 1..lastJob}

\* Every pending request names an existing row.
LEMMA InboxIsSent == WorkInv => inbox \in Seq(Sent)
  BY DEF WorkInv, WorkTypes, WorkHasItsRow, Sent

\* Whatever a request does leaves the host and the journal in states they know.
LEMMA ResultTypes ==
  ASSUME RowsInv, WorkInv, NEW q \in Sent, NEW x \in Results(q)
  PROVE  x.host \in HostSite /\ x.journal \in Journals
         /\ x.reply \in {"ok", "fail", "restored"}
  <1>1. /\ q.job \in JobId /\ q.domain \in Domains \cup {None}
        /\ job[q.job].site \in Sites /\ job[q.job].domain \in Domains \cup {None}
    BY DEF Sent, RowsInv, RowTypes, RowsWellFormed, JobId, JobRow, Request
  <1>2. host[job[q.job].site] \in HostSite /\ journal[q.job] \in Journals
    BY <1>1 DEF WorkInv, WorkTypes
  <1> DEFINE h == host[job[q.job].site]
             n == journal[q.job]
             Fine == {y \in [host : HostSite, journal : Journals, reply : Replies] :
                        y.reply \in {"ok", "fail", "restored"}}
  <1>3. \A g \in HostSite, m \in Journals, r \in {"ok", "fail", "restored"} : Result(g, m, r) \in Fine
    BY DEF Result, Replies
  <1>4. \A d \in Domains \cup {None} : Up(d) \in HostSite /\ Off(d) \in HostSite
    BY DEF Up, Off, HostSite
  <1>5. Gone \in HostSite
    BY DEF Gone, HostSite
  <1>6. /\ [h EXCEPT !.files = TRUE] \in HostSite
        /\ [h EXCEPT !.serving = FALSE] \in HostSite
        /\ Bare(h.vhost) \in HostSite
    BY <1>2 DEF HostSite, Bare
  <1>7. {"none", "changing", "activating", "rollback", "complete", "restored", "removing", "done"} = Journals
    BY DEF Journals
  <1> HIDE DEF Fine
  <1>8. ProvisionResults(h, n, q.domain) \subseteq Fine
    BY <1>1, <1>2, <1>3, <1>4, <1>6 DEF ProvisionResults
  <1>9. CloneResults(h, n, q.domain) \subseteq Fine /\ RestoreResults(h, n) \subseteq Fine
    <2>1. CloneResults(h, n, q.domain) \subseteq Fine
      BY <1>2, <1>3, <1>8 DEF CloneResults
    <2>2. RestoreResults(h, n) \subseteq Fine
      BY <1>2, <1>3, <1>7 DEF RestoreResults
    <2> QED BY <2>1, <2>2
  <1>10. DisableResults(h, n) \subseteq Fine
    BY <1>2, <1>3, <1>6 DEF DisableResults
  <1>11. DeleteResults(h, n) \subseteq Fine
    BY <1>2, <1>3, <1>5, <1>6, <1>7 DEF DeleteResults
  <1>12. DomainChangeResults(h, n, q.domain, job[q.job].domain) \subseteq Fine
    <2> DEFINE new == job[q.job].domain
               Settled == {Result(Up(new), "complete", r) : r \in {"ok", "fail"}} \cup
                          {Result(Up(q.domain), "restored", r) : r \in {"restored", "fail"}}
    <2>1. \A m \in Journals : \A t \in Traffic(m, q.domain, new) : Result(t, m, "fail") \in Fine
      BY <1>1, <1>3, <1>4 DEF Traffic
    <2> SUFFICES ASSUME NEW y \in DomainChangeResults(h, n, q.domain, new) PROVE y \in Fine
      OBVIOUS
    <2>2. \/ y \in {Result(h, n, r) : r \in {"ok", "fail", "restored"}}
          \/ \E m \in Journals : \E t \in Traffic(m, q.domain, new) : y = Result(t, m, "fail")
          \/ y \in Settled
      <3> DEFINE Open == IF n \in {"none", "changing"} THEN {"changing", "activating", "rollback"}
                         ELSE {n}
                 Halfway == UNION {{Result(t, m, "fail") : t \in Traffic(m, q.domain, new)} : m \in Open}
      <3>1. Open \subseteq Journals
        BY <1>2, <1>7
      <3>2. y \in Halfway => \E m \in Journals : \E t \in Traffic(m, q.domain, new) :
                                y = Result(t, m, "fail")
        BY <3>1
      <3> HIDE DEF Halfway
      <3>3. \/ y \in {Result(h, n, "fail"), Result(h, n, "ok"), Result(h, n, "restored")}
            \/ y \in Halfway
            \/ y \in Settled
        <4>1. CASE ~h.files
          BY <4>1 DEF DomainChangeResults
        <4>2. CASE h.files /\ n = "complete"
          BY <4>2 DEF DomainChangeResults
        <4>3. CASE h.files /\ n = "restored"
          BY <4>3 DEF DomainChangeResults
        <4>4. CASE h.files /\ n \notin {"complete", "restored"}
          <5>1. y \in {Result(h, n, "fail")}
                  \cup PreflightResults(h, n)
                  \cup Halfway
                  \cup (IF "activating" \in Open THEN {Result(Up(new), "complete", r) : r \in {"ok", "fail"}} ELSE {})
                  \cup (IF "rollback" \in Open THEN {Result(Up(q.domain), "restored", r) : r \in {"restored", "fail"}} ELSE {})
            <6>1. y \in DomainChangeSteps(h, n, q.domain, new)
              BY <4>4 DEF DomainChangeResults
            <6> QED BY <6>1, Zenon DEF DomainChangeSteps, Halfway, Open
          <5> HIDE DEF Open
          <5> QED BY <5>1 DEF PreflightResults
        <4> QED BY <4>1, <4>2, <4>3, <4>4
      <3> QED BY <3>2, <3>3
    <2> QED BY <1>1, <1>2, <1>3, <1>4, <1>7, <2>1, <2>2
  <1>13. Result(h, n, "ok") \in Fine /\ Result(h, n, "fail") \in Fine
    BY <1>2, <1>3
  <1>14. Results(q) \subseteq Fine
    BY <1>8, <1>9, <1>10, <1>11, <1>12, <1>13 DEF Results
  <1> QED BY <1>14 DEF Fine

\* A handler, and the worker's own transactions, leave what is held as it is.
LEMMA HeldWork ==
  ASSUME RowTypes, WorkInv, lastJob' \in 0..MaxJobs, lastJob' >= lastJob,
         checked' \subseteq Sites, UNCHANGED <<worker, wire, faults>>
  PROVE  WorkInv'
  <1>1. WorkTypes'
    BY DEF WorkInv, WorkTypes, wire
  <1>2. 1..lastJob \subseteq 1..lastJob'
    BY DEF RowTypes
  <1>3. WorkHasItsRow' /\ CallersWait'
    BY <1>2 DEF WorkInv, WorkHasItsRow, CallersWait, wire
  <1> QED BY <1>1, <1>3 DEF WorkInv

\* No handler breaks the invariant.
LEMMA HandlersKeepStore ==
  ASSUME RowsInv, WorkInv, Handlers
  PROVE  RowsInv' /\ WorkInv'
  <1>1. PICK s \in Sites :
          \/ EnqueueSiteDisable(s) \/ EnqueueSiteEnable(s) \/ EnqueueSiteProvisionRetry(s)
          \/ EnqueueSiteDelete(s) \/ RetryDomainChange(s) \/ RetrySiteDelete(s)
          \/ EnqueueSiteBackup(s) \/ ReadSnippetSite(s) \/ SetSiteSnippets(s)
          \/ \E d \in Domains :
               \/ CreateSite(s, d) \/ EnqueueDomainChange(s, d)
               \/ \E src \in Sites : EnqueueRestoreClone(src, s, d)
    BY DEF Handlers
  <1>2. RowTypes /\ job \in [JobId -> JobRow]
    BY DEF RowsInv, RowTypes
  <1>3. \A k, t, src, d : InsertJob(k, t, src, d) => lastJob' \in 0..MaxJobs /\ lastJob' >= lastJob
    BY <1>2, BoundsAssumption DEF InsertJob, RowTypes
  <1>4. UNCHANGED lastJob => lastJob' \in 0..MaxJobs /\ lastJob' >= lastJob
    BY <1>2 DEF RowTypes
  <1>5. checked \subseteq Sites
    BY DEF WorkInv, WorkTypes
  <1>6. ASSUME NEW k, NEW allowed, EnqueueSiteTransition(s, k, allowed),
               k \in StatusKinds \ {"site.restore_clone", "site.domain_change"},
               allowed \cap (LockedStatus \cup {"absent"}) = {}
        PROVE  RowsInv' /\ WorkInv'
    <2>1. RowsInv'
      BY <1>6, NewTransition DEF EnqueueSiteTransition
    <2>2. UNCHANGED <<checked, worker, wire, faults>> /\ lastJob' \in 0..MaxJobs /\ lastJob' >= lastJob
      BY <1>3, <1>6 DEF EnqueueSiteTransition, Elsewhere
    <2> QED BY <1>2, <1>5, <2>1, <2>2, HeldWork
  <1>7. CASE EnqueueSiteDisable(s)
    BY <1>6, <1>7, KindFacts DEF EnqueueSiteDisable, LockedStatus
  <1>8. CASE EnqueueSiteEnable(s)
    BY <1>6, <1>8, KindFacts DEF EnqueueSiteEnable, LockedStatus
  <1>9. CASE EnqueueSiteProvisionRetry(s)
    BY <1>6, <1>9, KindFacts DEF EnqueueSiteProvisionRetry, LockedStatus
  <1>10. CASE EnqueueSiteDelete(s)
    <2>1. /\ site[s].domain \in Domains \cup {None}
          /\ site[s].status \notin LockedStatus \cup {"absent"} /\ Idle(s)
          /\ SetStatus(s, Transit["site.delete"])
          /\ InsertJob("site.delete", s, None, site[s].domain)
          /\ UNCHANGED <<tomb, reservation>>
      BY <1>10, <1>2, KindFacts DEF EnqueueSiteDelete, LockedStatus, RowTypes, SiteRow
    <2>2. RowsInv'
      BY <2>1, KindFacts, NewTransition
    <2>3. UNCHANGED <<checked, worker, wire, faults>> /\ lastJob' \in 0..MaxJobs /\ lastJob' >= lastJob
      BY <1>3, <1>10 DEF EnqueueSiteDelete, Elsewhere
    <2> QED BY <1>2, <1>5, <2>2, <2>3, HeldWork
  <1>11. CASE RetryDomainChange(s)
    <2>1. RowsInv'
      BY <1>11, Retried DEF RetryDomainChange, LifecycleKinds
    <2>2. UNCHANGED <<lastJob, checked, worker, wire, faults>>
      BY <1>11 DEF RetryDomainChange, RetryFailedLifecycleJob, Elsewhere
    <2> QED BY <1>2, <1>4, <1>5, <2>1, <2>2, HeldWork
  <1>12. CASE RetrySiteDelete(s)
    <2>1. RowsInv'
      BY <1>12, Retried DEF RetrySiteDelete, LifecycleKinds
    <2>2. UNCHANGED <<lastJob, checked, worker, wire, faults>>
      BY <1>12 DEF RetrySiteDelete, RetryFailedLifecycleJob, Elsewhere
    <2> QED BY <1>2, <1>4, <1>5, <2>1, <2>2, HeldWork
  <1>13. CASE EnqueueSiteBackup(s)
    <2>1. RowsInv'
      BY <1>13, KindFacts, NewOrdinary DEF EnqueueSiteBackup
    <2>2. UNCHANGED <<checked, worker, wire, faults>> /\ lastJob' \in 0..MaxJobs /\ lastJob' >= lastJob
      BY <1>3, <1>13 DEF EnqueueSiteBackup, Elsewhere
    <2> QED BY <1>2, <1>5, <2>1, <2>2, HeldWork
  <1>14. CASE ReadSnippetSite(s)
    <2>1. UNCHANGED <<store, worker, wire, faults>> /\ checked' \subseteq Sites
      BY <1>5, <1>14 DEF ReadSnippetSite
    <2>2. RowsInv'
      BY <1>2, <2>1, Requeued DEF store
    <2> QED BY <1>2, <1>4, <2>1, <2>2, HeldWork DEF store
  <1>15. CASE SetSiteSnippets(s)
    <2>1. /\ UNCHANGED <<site, tomb, reservation, worker, wire, faults>> /\ checked' \subseteq Sites
          /\ InsertJob("site.config_apply", s, None, None) \/ UNCHANGED <<job, lastJob>>
      BY <1>5, <1>15 DEF SetSiteSnippets
    <2>2. CASE InsertJob("site.config_apply", s, None, None)
      <3>1. RowsInv'
        BY <2>1, <2>2, KindFacts, NewOrdinary
      <3> QED BY <1>2, <1>3, <2>1, <2>2, <3>1, HeldWork
    <2>3. CASE UNCHANGED <<job, lastJob>>
      <3>1. RowsInv'
        BY <1>2, <2>1, <2>3, Requeued
      <3> QED BY <1>2, <1>4, <2>1, <2>3, <3>1, HeldWork
    <2> QED BY <2>1, <2>2, <2>3
  <1>16. ASSUME NEW d \in Domains, CreateSite(s, d) PROVE RowsInv' /\ WorkInv'
    <2>1. RowsInv'
      BY <1>16, NewSite DEF CreateSite
    <2>2. UNCHANGED <<checked, worker, wire, faults>> /\ lastJob' \in 0..MaxJobs /\ lastJob' >= lastJob
      BY <1>3, <1>16 DEF CreateSite, Elsewhere
    <2> QED BY <1>2, <1>5, <2>1, <2>2, HeldWork
  <1>17. ASSUME NEW d \in Domains, EnqueueDomainChange(s, d) PROVE RowsInv' /\ WorkInv'
    <2>1. RowsInv'
      BY <1>17, NewDomainChange
    <2>2. UNCHANGED <<checked, worker, wire, faults>> /\ lastJob' \in 0..MaxJobs /\ lastJob' >= lastJob
      BY <1>3, <1>17 DEF EnqueueDomainChange, Elsewhere
    <2> QED BY <1>2, <1>5, <2>1, <2>2, HeldWork
  <1>18. ASSUME NEW d \in Domains, NEW src \in Sites, EnqueueRestoreClone(src, s, d)
         PROVE  RowsInv' /\ WorkInv'
    <2>1. RowsInv'
      BY <1>18, NewSite DEF EnqueueRestoreClone
    <2>2. UNCHANGED <<checked, worker, wire, faults>> /\ lastJob' \in 0..MaxJobs /\ lastJob' >= lastJob
      BY <1>3, <1>18 DEF EnqueueRestoreClone, Elsewhere
    <2> QED BY <1>2, <1>5, <2>1, <2>2, HeldWork
  <1> QED BY <1>1, <1>7, <1>8, <1>9, <1>10, <1>11, <1>12, <1>13, <1>14, <1>15, <1>16, <1>17, <1>18

\* Steps that leave the tables alone.
LEMMA TablesUntouched ==
  ASSUME RowsInv, UNCHANGED store
  PROVE  RowsInv'
  <1>1. job \in [JobId -> JobRow]
    BY DEF RowsInv, RowTypes
  <1> QED BY <1>1, Requeued DEF store

\* Steps of one worker after which nobody waits for an answer in its name.
LEMMA OneWorkerMoves ==
  ASSUME RowTypes, WorkInv, NEW w \in Workers, NEW v \in Worker,
         worker' = [worker EXCEPT ![w] = v],
         v.pc \notin {"down", "idle"} => v.job \in 1..lastJob,
         checked' \subseteq Sites, faults' \in 0..MaxFaults,
         inbox' \in Seq(Sent), Len(inbox') = Len(inbox),
         \A i \in 1..Len(inbox) : /\ inbox'[i].job = inbox[i].job
                                 /\ inbox'[i].caller \in {inbox[i].caller, None} \ {w},
         UNCHANGED <<lastJob, journal, host>>
  PROVE  WorkInv'
  <1>1. WorkTypes'
    BY DEF WorkInv, WorkTypes, Sent
  <1>2. \A x \in Workers : worker'[x] = IF x = w THEN v ELSE worker[x]
    BY DEF WorkInv, WorkTypes
  <1>3. \A x \in Workers : worker'[x].pc \notin {"down", "idle"} => worker'[x].job \in 1..lastJob
    BY <1>2 DEF WorkInv, WorkHasItsRow
  <1>4. \A i \in DOMAIN inbox' : inbox'[i].job \in 1..lastJob
    BY DEF Sent
  <1>5. DOMAIN inbox = 1..Len(inbox) /\ DOMAIN inbox' = 1..Len(inbox)
    BY DEF WorkInv, WorkTypes
  <1>6. \A i \in 1..Len(inbox) : inbox'[i].caller \in Workers \cup {None}
    BY DEF Sent, Request
  <1>7. CallersWait'
    <2>1. ASSUME NEW i \in 1..Len(inbox), inbox'[i].caller # None
          PROVE  /\ inbox'[i].caller = inbox[i].caller /\ inbox'[i].job = inbox[i].job
                 /\ worker'[inbox'[i].caller] = worker[inbox[i].caller]
      BY <1>2, <1>6, <2>1
    <2> QED BY <1>5, <2>1 DEF WorkInv, CallersWait
  <1> QED BY <1>1, <1>3, <1>4, <1>7 DEF WorkInv, WorkHasItsRow

\* A worker that is not calling has no request of its own pending.
LEMMA OneWorkerActs ==
  ASSUME RowTypes, WorkInv, NEW w \in Workers, NEW v \in Worker,
         worker[w].pc # "calling", worker' = [worker EXCEPT ![w] = v],
         v.pc \notin {"down", "idle"} => v.job \in 1..lastJob,
         checked' \subseteq Sites, faults' \in 0..MaxFaults,
         UNCHANGED <<lastJob, inbox, journal, host>>
  PROVE  WorkInv'
  <1>1. inbox' \in Seq(Sent)
    BY InboxIsSent
  <1>2. \A i \in 1..Len(inbox) : inbox[i].caller # w
    BY NoneAssumption DEF WorkInv, WorkTypes, CallersWait
  <1> QED BY <1>1, <1>2, OneWorkerMoves

\* Losing the caller of a request does not change which row it names.
LEMMA AbandonedIsSent ==
  ASSUME inbox \in Seq(Sent), NEW w \in Workers
  PROVE  /\ Abandoned({w}) \in Seq(Sent) /\ Len(Abandoned({w})) = Len(inbox)
         /\ \A i \in 1..Len(inbox) : /\ Abandoned({w})[i].job = inbox[i].job
                                     /\ Abandoned({w})[i].caller \in {inbox[i].caller, None} \ {w}
  <1>1. ASSUME NEW q \in Sent
        PROVE  /\ [q EXCEPT !.caller = None] \in Sent /\ [q EXCEPT !.caller = None].job = q.job
               /\ [q EXCEPT !.caller = None].caller = None
    BY <1>1 DEF Sent, Request
  <1>2. \A i \in 1..Len(inbox) : inbox[i] \in Sent
    OBVIOUS
  <1> DEFINE A == [i \in 1..Len(inbox) |->
                     IF inbox[i].caller = w THEN [inbox[i] EXCEPT !.caller = None] ELSE inbox[i]]
  <1>3. Abandoned({w}) = A
    BY DEF Abandoned
  <1>4. \A i \in 1..Len(inbox) : A[i] \in Sent /\ A[i].job = inbox[i].job
                                /\ A[i].caller \in {inbox[i].caller, None} \ {w}
    BY <1>1, <1>2, NoneAssumption
  <1>5. A \in Seq(Sent) /\ Len(A) = Len(inbox)
    BY <1>4
  <1> QED BY <1>3, <1>4, <1>5

\* No step of a worker breaks the invariant.
LEMMA WorkerKeepsStore ==
  ASSUME RowsInv, WorkInv, NEW w \in Workers, WorkerStep(w)
  PROVE  RowsInv' /\ WorkInv'
  <1>1. RowTypes /\ job \in [JobId -> JobRow] /\ lastJob \in 0..MaxJobs
    BY DEF RowsInv, RowTypes
  <1>2. /\ worker[w] \in Worker /\ worker \in [Workers -> Worker]
        /\ inbox \in Seq(Sent) /\ checked \subseteq Sites /\ faults \in 0..MaxFaults
        /\ worker[w].pc \notin {"down", "idle"} => worker[w].job \in 1..lastJob /\ worker[w].job \in JobId
    BY <1>1, InboxIsSent, BoundsAssumption DEF WorkInv, WorkTypes, WorkHasItsRow, JobId
  <1>3. Idling \in Worker /\ Idling.pc = "idle"
    BY DEF Idling, Worker, Replies
  <1>4. ASSUME NEW pc \in {"claimed", "calling"} PROVE [worker[w] EXCEPT !.pc = pc] \in Worker
    BY <1>2 DEF Worker
  <1>5. ASSUME NEW r \in Replies PROVE [worker[w] EXCEPT !.pc = "answered", !.reply = r] \in Worker
    BY <1>2, <1>5 DEF Worker
  <1>6. CASE StartWorker(w)
    <2>1. RowsInv'
      <3>1. /\ job' \in [JobId -> JobRow]
            /\ \A j \in JobId :
                 \/ job'[j] = job[j]
                 \/ /\ job[j].status \in {"queued", "running"} /\ job'[j].status \in {"queued", "running"}
                    /\ job'[j].kind = job[j].kind /\ job'[j].site = job[j].site
                    /\ job'[j].source = job[j].source /\ job'[j].domain = job[j].domain
        BY <1>1, <1>6 DEF StartWorker, JobRow, JobStatus
      <3> QED BY <1>6, <3>1, Requeued DEF StartWorker
    <2>2. WorkInv'
      <3>1. /\ worker[w].pc # "calling" /\ worker' = [worker EXCEPT ![w] = Idling]
            /\ UNCHANGED <<lastJob, checked, wire, faults>>
        BY <1>6 DEF StartWorker
      <3> QED BY <1>1, <1>2, <1>3, <3>1, OneWorkerActs DEF wire
    <2> QED BY <2>1, <2>2
  <1>7. CASE SelectJob(w)
    <2>1. PICK j \in JobId :
            /\ job[j].status = "queued"
            /\ worker' = [worker EXCEPT ![w] = [worker[w] EXCEPT !.pc = "selected", !.job = j]]
      BY <1>2, <1>7 DEF SelectJob
    <2>2. j \in 1..lastJob
      BY <1>1, <2>1 DEF RowsInv, RowsWellFormed, NoJob, JobId
    <2> DEFINE v == [worker[w] EXCEPT !.pc = "selected", !.job = j]
    <2>3. v \in Worker /\ v.job = j
      BY <1>2 DEF Worker
    <2> HIDE DEF v
    <2>4. /\ worker[w].pc # "calling" /\ worker' = [worker EXCEPT ![w] = v]
          /\ UNCHANGED <<store, checked, wire, faults>>
      BY <1>7, <2>1 DEF SelectJob, v
    <2>5. WorkInv'
      BY <1>1, <1>2, <2>2, <2>3, <2>4, OneWorkerActs DEF wire, store
    <2> QED BY <2>4, <2>5, TablesUntouched
  <1>8. CASE ClaimJob(w)
    <2> DEFINE n == worker[w].job
    <2>1. worker[w].pc = "selected" /\ n \in JobId /\ n \in 1..lastJob
      BY <1>2, <1>8 DEF ClaimJob
    <2>2. RowsInv'
      <3>1. /\ job' \in [JobId -> JobRow]
            /\ \A j \in JobId :
                 \/ job'[j] = job[j]
                 \/ /\ job[j].status \in {"queued", "running"} /\ job'[j].status \in {"queued", "running"}
                    /\ job'[j].kind = job[j].kind /\ job'[j].site = job[j].site
                    /\ job'[j].source = job[j].source /\ job'[j].domain = job[j].domain
        BY <1>1, <1>8, <2>1 DEF ClaimJob, JobRow, JobStatus
      <3> QED BY <1>8, <3>1, Requeued DEF ClaimJob
    <2>3. /\ worker[w].pc # "calling"
          /\ UNCHANGED <<lastJob, checked, wire, faults>>
      BY <1>8 DEF ClaimJob
    <2>4. CASE job[n].status = "queued"
      <3> DEFINE v == [worker[w] EXCEPT !.pc = "claimed"]
      <3>1. v \in Worker /\ v.job \in 1..lastJob
        BY <1>2, <1>4, <2>1 DEF Worker
      <3>2. worker' = [worker EXCEPT ![w] = v]
        BY <1>8, <2>4 DEF ClaimJob
      <3> HIDE DEF v
      <3>3. WorkInv'
        BY <1>1, <1>2, <2>3, <3>1, <3>2, OneWorkerActs DEF wire
      <3> QED BY <2>2, <3>3
    <2>5. CASE job[n].status # "queued"
      <3>1. worker' = [worker EXCEPT ![w] = Idling]
        BY <1>8, <2>5 DEF ClaimJob
      <3>2. WorkInv'
        BY <1>1, <1>2, <1>3, <2>3, <3>1, OneWorkerActs DEF wire
      <3> QED BY <2>2, <3>2
    <2> QED BY <2>4, <2>5
  <1>9. CASE CallBroker(w)
    <2> DEFINE q == [job |-> worker[w].job, domain |-> site[job[worker[w].job].site].domain,
                      caller |-> w, waits |-> FALSE]
               v == [worker[w] EXCEPT !.pc = "calling"]
    <2>1. worker[w].job \in 1..lastJob /\ worker[w].job \in JobId
      BY <1>2, <1>9 DEF CallBroker
    <2>2. q \in Sent
      <3>1. site[job[worker[w].job].site].domain \in Domains \cup {None}
        BY <2>1, <1>1 DEF RowsInv, RowTypes, RowsWellFormed, SiteRow
      <3> QED BY <2>1, <3>1 DEF Sent, Request
    <2>3. v \in Worker /\ v.job \in 1..lastJob
      BY <1>2, <1>4, <2>1 DEF Worker
    <2>4. /\ inbox' = Append(inbox, q) /\ worker' = [worker EXCEPT ![w] = v]
          /\ UNCHANGED <<store, checked, journal, host, faults>>
      BY <1>9 DEF CallBroker
    <2>5. q.caller = w /\ q.job = worker[w].job /\ v.pc = "calling" /\ v.job = worker[w].job
      BY <1>2 DEF Worker
    <2>6. worker[w].pc = "claimed"
      BY <1>9 DEF CallBroker
    <2> HIDE DEF q, v
    <2>7. /\ inbox' \in Seq(Sent) /\ Len(inbox') = Len(inbox) + 1
          /\ \A i \in 1..Len(inbox) : inbox'[i] = inbox[i]
          /\ inbox'[Len(inbox) + 1] = q
      BY <1>2, <2>2, <2>4, AppendProperties
    <2>8. \A x \in Workers : worker'[x] = IF x = w THEN v ELSE worker[x]
      BY <1>2, <2>4
    <2>9. WorkTypes'
      BY <2>3, <2>4, <2>7 DEF WorkInv, WorkTypes, Sent
    <2>10. WorkHasItsRow'
      BY <2>3, <2>4, <2>7, <2>8 DEF WorkInv, WorkHasItsRow, Sent, store
    <2>11. DOMAIN inbox = 1..Len(inbox) /\ DOMAIN inbox' = 1..(Len(inbox) + 1) /\ Len(inbox) \in Nat
      BY <1>2, <2>7
    <2>12. \A i \in 1..Len(inbox) : /\ inbox[i].caller # w
                                   /\ inbox[i].caller \in Workers \cup {None}
      <3>1. \A i \in 1..Len(inbox) : inbox[i].caller # w
        BY <2>6, <2>11, NoneAssumption DEF WorkInv, CallersWait
      <3> QED BY <1>2, <3>1 DEF Sent, Request
    <2>13. ASSUME NEW i \in DOMAIN inbox', inbox'[i].caller # None
           PROVE  /\ worker'[inbox'[i].caller].pc = "calling"
                  /\ worker'[inbox'[i].caller].job = inbox'[i].job
      <3>1. CASE i = Len(inbox) + 1
        BY <3>1, <2>5, <2>7, <2>8
      <3>2. CASE i # Len(inbox) + 1
        <4>1. i \in 1..Len(inbox) /\ inbox'[i] = inbox[i]
          BY <3>2, <2>7, <2>11
        <4>2. worker'[inbox[i].caller] = worker[inbox[i].caller]
          BY <4>1, <2>8, <2>12, <2>13
        <4> QED BY <4>1, <4>2, <2>11, <2>13 DEF WorkInv, CallersWait
      <3> QED BY <3>1, <3>2
    <2>14. ASSUME NEW i \in DOMAIN inbox', NEW k \in DOMAIN inbox',
                  inbox'[i].caller # None, inbox'[i].caller = inbox'[k].caller
           PROVE  i = k
      <3>1. CASE i \in 1..Len(inbox) /\ k \in 1..Len(inbox)
        BY <3>1, <2>7, <2>11, <2>14 DEF WorkInv, CallersWait
      <3>2. CASE i = Len(inbox) + 1 \/ k = Len(inbox) + 1
        BY <3>2, <2>5, <2>7, <2>11, <2>12, <2>14
      <3> QED BY <3>1, <3>2, <2>11
    <2>15. WorkInv'
      BY <2>9, <2>10, <2>13, <2>14 DEF WorkInv, CallersWait
    <2> QED BY <2>4, <2>15, TablesUntouched
  <1>10. CASE RefuseCall(w)
    <2> DEFINE v == [worker[w] EXCEPT !.pc = "answered", !.reply = "refused"]
    <2>1. worker[w].job \in 1..lastJob
      BY <1>2, <1>10 DEF RefuseCall
    <2>2. v \in Worker /\ v.job \in 1..lastJob
      BY <1>2, <1>5, <2>1 DEF Worker, Replies
    <2>3. /\ worker[w].pc # "calling" /\ worker' = [worker EXCEPT ![w] = v]
          /\ UNCHANGED <<store, checked, wire, faults>>
      BY <1>2, <1>10 DEF RefuseCall, Answer
    <2> HIDE DEF v
    <2>4. WorkInv'
      BY <1>1, <1>2, <2>2, <2>3, OneWorkerActs DEF wire, store
    <2> QED BY <2>3, <2>4, TablesUntouched
  <1>11. CASE RetryJob(w)
    <2> DEFINE n == worker[w].job
    <2>1. n \in JobId
      BY <1>2, <1>11 DEF RetryJob
    <2>2. RowsInv'
      <3>1. /\ job' \in [JobId -> JobRow]
            /\ \A j \in JobId :
                 \/ job'[j] = job[j]
                 \/ /\ job[j].status \in {"queued", "running"} /\ job'[j].status \in {"queued", "running"}
                    /\ job'[j].kind = job[j].kind /\ job'[j].site = job[j].site
                    /\ job'[j].source = job[j].source /\ job'[j].domain = job[j].domain
        BY <1>1, <1>11, <2>1 DEF RetryJob, JobRow, JobStatus
      <3> QED BY <1>11, <3>1, Requeued DEF RetryJob
    <2>3. WorkInv'
      <3>1. /\ worker[w].pc # "calling" /\ worker' = [worker EXCEPT ![w] = Idling]
            /\ UNCHANGED <<lastJob, checked, wire, faults>>
        BY <1>11 DEF RetryJob
      <3> QED BY <1>1, <1>2, <1>3, <3>1, OneWorkerActs DEF wire
    <2> QED BY <2>2, <2>3
  <1>12. ASSUME NEW kinds, Finishing(w, kinds)
         PROVE  WorkInv' /\ worker[w].job \in JobId /\ lastJob' = lastJob
    <2>1. /\ worker[w].pc = "answered" /\ worker' = [worker EXCEPT ![w] = Idling]
          /\ UNCHANGED <<lastJob, checked, wire, faults>>
      BY <1>12 DEF Finishing
    <2> QED BY <1>1, <1>2, <1>3, <2>1, OneWorkerActs DEF wire
  <1>13. CASE FinishTransition(w)
    <2>1. WorkInv' /\ worker[w].job \in JobId
      BY <1>12, <1>13 DEF FinishTransition
    <2> QED BY <1>13, <2>1, ClosedTransition
  <1>14. CASE FinishOrdinary(w)
    <2>1. WorkInv' /\ worker[w].job \in JobId /\ lastJob' = lastJob
      BY <1>12, <1>14 DEF FinishOrdinary
    <2>2. /\ UNCHANGED <<site, tomb, reservation>> /\ job[worker[w].job].kind \in JobKinds \ StatusKinds
          /\ IF job[worker[w].job].status = "running" THEN Close(worker[w].job, worker[w].reply = "ok")
             ELSE UNCHANGED job
      BY <1>14 DEF FinishOrdinary, Finishing
    <2>3. CASE job[worker[w].job].status = "running"
      <3>1. PICK ok \in BOOLEAN : ok = (worker[w].reply = "ok")
        OBVIOUS
      <3>2. PICK n \in JobId : n = worker[w].job
        BY <2>1
      <3> QED BY <2>1, <2>2, <2>3, <3>1, <3>2, ClosedOrdinary
    <2>4. CASE job[worker[w].job].status # "running"
      BY <1>1, <2>1, <2>2, <2>4, Requeued
    <2> QED BY <2>3, <2>4
  <1>15. CASE FinishDomainChange(w)
    <2>1. WorkInv' /\ worker[w].job \in JobId
      BY <1>12, <1>15 DEF FinishDomainChange
    <2> QED BY <1>15, <2>1, ClosedDomainChange
  <1>16. CASE FinishSiteDelete(w)
    <2>1. WorkInv' /\ worker[w].job \in JobId
      BY <1>12, <1>16 DEF FinishSiteDelete
    <2> QED BY <1>16, <2>1, ClosedDelete
  <1> QED BY <1>6, <1>7, <1>8, <1>9, <1>10, <1>11, <1>13, <1>14, <1>15, <1>16 DEF WorkerStep

\* A request that has run to its end.
LEMMA ExecuteKeepsStore ==
  ASSUME RowsInv, WorkInv, \E i \in DOMAIN inbox : Execute(i)
  PROVE  RowsInv' /\ WorkInv'
  <1>1. RowTypes
    BY DEF RowsInv
  <1>2. /\ inbox \in Seq(Sent) /\ DOMAIN inbox = 1..Len(inbox) /\ Len(inbox) \in Nat
        /\ WorkTypes
    BY <1>1, InboxIsSent DEF WorkInv
  <1>3. PICK i \in 1..Len(inbox) : Execute(i)
    BY <1>2
  <1>4. PICK q \in Sent : q = inbox[i]
    BY <1>2
  <1>5. PICK x \in Results(q) :
          /\ host' = [host EXCEPT ![job[q.job].site] = x.host]
          /\ journal' = [journal EXCEPT ![q.job] = x.journal]
          /\ IF q.caller = None THEN UNCHANGED worker ELSE Answer(q.caller, x.reply)
    BY <1>3, <1>4 DEF Execute
  <1>6. inbox' = RemoveAt(inbox, i) /\ UNCHANGED <<store, checked, faults>>
    BY <1>3 DEF Execute
  <1>7. x.host \in HostSite /\ x.journal \in Journals /\ x.reply \in Replies
    BY ResultTypes DEF Replies
  <1>8. /\ inbox' \in Seq(Sent) /\ DOMAIN inbox' = 1..(Len(inbox) - 1)
        /\ \A k \in 1..(Len(inbox) - 1) : inbox'[k] = IF k < i THEN inbox[k] ELSE inbox[k + 1]
    <2>1. /\ RemoveAt(inbox, i) \in Seq(Sent)
          /\ Len(RemoveAt(inbox, i)) = Len(inbox) - 1
          /\ \A k \in 1..(Len(inbox) - 1) :
               RemoveAt(inbox, i)[k] = IF k < i THEN inbox[k] ELSE inbox[k + 1]
      BY <1>2, RemoveAtProperties
    <2>2. DOMAIN inbox' = 1..Len(inbox')
      BY <1>6, <2>1
    <2> QED BY <1>6, <2>1, <2>2
  <1>9. host' \in [Sites -> HostSite] /\ journal' \in [JobId -> Journals]
    BY <1>2, <1>5, <1>7 DEF WorkTypes
  <1>10. q.caller # None => /\ q.caller \in Workers
                            /\ worker[q.caller].pc = "calling" /\ worker[q.caller].job = q.job
    BY <1>2, <1>4 DEF WorkInv, CallersWait, Sent, Request
  <1>11. /\ worker' \in [Workers -> Worker]
         /\ \A w \in Workers : worker'[w].job = worker[w].job
         /\ \A w \in Workers : w # q.caller => worker'[w] = worker[w]
    <2>1. CASE q.caller = None
      BY <1>2, <1>5, <2>1 DEF WorkTypes
    <2>2. CASE q.caller # None
      <3> DEFINE v == [worker[q.caller] EXCEPT !.pc = "answered", !.reply = x.reply]
      <3>1. v \in Worker /\ v.job = worker[q.caller].job
        BY <1>2, <1>7, <1>10, <2>2 DEF WorkTypes, Worker
      <3>2. worker' = [worker EXCEPT ![q.caller] = v]
        BY <1>2, <1>5, <1>10, <2>2 DEF Answer, WorkTypes
      <3> HIDE DEF v
      <3> QED BY <1>2, <1>10, <2>2, <3>1, <3>2 DEF WorkTypes
    <2> QED BY <2>1, <2>2
  <1>12. WorkTypes'
    BY <1>2, <1>6, <1>8, <1>9, <1>11 DEF WorkTypes, Sent
  <1>13. WorkHasItsRow'
    <2>1. ASSUME NEW w \in Workers, worker'[w].pc \notin {"down", "idle"}
          PROVE  worker'[w].job \in 1..lastJob'
      <3>1. CASE w = q.caller
        BY <3>1, <1>4, <1>6, <1>10, <1>11, NoneAssumption DEF Sent, store
      <3>2. CASE w # q.caller
        BY <2>1, <3>2, <1>6, <1>11 DEF WorkInv, WorkHasItsRow, store
      <3> QED BY <3>1, <3>2
    <2>2. \A k \in DOMAIN inbox' : inbox'[k].job \in 1..lastJob'
      BY <1>6, <1>8 DEF Sent, store
    <2> QED BY <2>1, <2>2 DEF WorkHasItsRow
  <1>14. CallersWait'
    <2> DEFINE At(k) == IF k < i THEN k ELSE k + 1
    <2>1. ASSUME NEW k \in DOMAIN inbox'
          PROVE  At(k) \in DOMAIN inbox /\ inbox'[k] = inbox[At(k)] /\ At(k) # i
      BY <1>2, <1>8
    <2>2. ASSUME NEW k \in DOMAIN inbox', inbox'[k].caller # None
          PROVE  inbox'[k].caller # q.caller /\ inbox'[k].caller \in Workers
      <3>1. inbox[At(k)].caller # inbox[i].caller
        BY <1>2, <2>1, <2>2 DEF WorkInv, CallersWait
      <3> QED BY <3>1, <2>1, <2>2, <1>4, <1>8 DEF Sent, Request
    <2>3. \A k, l \in DOMAIN inbox' : At(k) = At(l) => k = l
      BY <1>8
    <2> HIDE DEF At
    <2>4. ASSUME NEW k \in DOMAIN inbox', inbox'[k].caller # None
          PROVE  /\ worker'[inbox'[k].caller].pc = "calling"
                 /\ worker'[inbox'[k].caller].job = inbox'[k].job
      <3>1. worker'[inbox'[k].caller] = worker[inbox'[k].caller]
        BY <1>11, <2>2, <2>4
      <3> QED BY <2>1, <2>4, <3>1 DEF WorkInv, CallersWait
    <2>5. ASSUME NEW k \in DOMAIN inbox', NEW l \in DOMAIN inbox',
                 inbox'[k].caller # None, inbox'[k].caller = inbox'[l].caller
          PROVE  k = l
      <3>1. At(k) = At(l)
        BY <2>1, <2>5 DEF WorkInv, CallersWait
      <3> QED BY <2>3, <3>1
    <2> QED BY <2>4, <2>5 DEF CallersWait
  <1> QED BY <1>6, <1>12, <1>13, <1>14, TablesUntouched DEF WorkInv

\* A clone that lets go of the host keeps its place and its caller.
LEMMA CloneKeepsStore ==
  ASSUME RowsInv, WorkInv, NEW i \in DOMAIN inbox, CloneWaits(i)
  PROVE  RowsInv' /\ WorkInv'
  <1>1. RowTypes
    BY DEF RowsInv
  <1>2. /\ inbox \in Seq(Sent) /\ DOMAIN inbox = 1..Len(inbox) /\ Len(inbox) \in Nat
        /\ WorkTypes
    BY <1>1, InboxIsSent DEF WorkInv
  <1>3. /\ host' = [host EXCEPT ![job[inbox[i].job].site] = Up(inbox[i].domain)]
        /\ inbox' = [inbox EXCEPT ![i].waits = TRUE]
        /\ UNCHANGED <<store, checked, worker, journal, faults>>
    BY DEF CloneWaits
  <1>4. PICK q \in Sent : q = inbox[i]
    BY <1>2
  <1> DEFINE v == [q EXCEPT !.waits = TRUE]
  <1>5. v \in Sent /\ v.job = q.job /\ v.caller = q.caller
    BY <1>4 DEF Sent, Request
  <1>6. inbox' = [inbox EXCEPT ![i] = v]
    BY <1>2, <1>3, <1>4
  <1> HIDE DEF v
  <1>7. /\ inbox' \in Seq(Sent) /\ DOMAIN inbox' = DOMAIN inbox
        /\ \A k \in DOMAIN inbox : inbox'[k].job = inbox[k].job /\ inbox'[k].caller = inbox[k].caller
    BY <1>2, <1>4, <1>5, <1>6
  <1>8. q.domain \in Domains \cup {None}
    BY <1>4 DEF Sent, Request
  <1>9. Up(q.domain) \in HostSite
    BY <1>8 DEF Up, HostSite
  <1>10. host' \in [Sites -> HostSite]
    BY <1>2, <1>3, <1>4, <1>9 DEF WorkTypes
  <1>11. WorkTypes'
    BY <1>2, <1>3, <1>7, <1>10 DEF WorkTypes, Sent
  <1>12. WorkHasItsRow' /\ CallersWait'
    BY <1>3, <1>7 DEF WorkInv, WorkHasItsRow, CallersWait, store
  <1> QED BY <1>3, <1>11, <1>12, TablesUntouched DEF WorkInv

\* What the broker does leaves the tables alone and the workers sound.
LEMMA BrokerKeepsStore ==
  ASSUME RowsInv, WorkInv, BrokerStep
  PROVE  RowsInv' /\ WorkInv'
  BY ExecuteKeepsStore, CloneKeepsStore DEF BrokerStep

\* Stops and lost connections leave the tables alone.
LEMMA FaultsKeepStore ==
  ASSUME RowsInv, WorkInv, Faults
  PROVE  RowsInv' /\ WorkInv'
  <1>1. RowTypes
    BY DEF RowsInv
  <1>2. /\ inbox \in Seq(Sent) /\ worker \in [Workers -> Worker] /\ WorkTypes
    BY InboxIsSent DEF WorkInv, WorkTypes
  <1>3. Fault => faults' \in 0..MaxFaults
    BY <1>2, BoundsAssumption DEF Fault, WorkTypes
  <1>4. CASE StopBroker
    <2>1. /\ inbox' = <<>> /\ UNCHANGED <<store, checked, journal, host>> /\ Fault
      BY <1>4 DEF StopBroker
    <2> DEFINE next(w) == IF worker[w].pc = "calling"
                          THEN [worker[w] EXCEPT !.pc = "answered", !.reply = "unknown"] ELSE worker[w]
    <2>2. ASSUME NEW w \in Workers
          PROVE  next(w) \in Worker /\ next(w).job = worker[w].job
                 /\ (next(w).pc \notin {"down", "idle"} => worker[w].pc \notin {"down", "idle"})
      BY <1>2 DEF Worker, Replies
    <2>3. worker' = [w \in Workers |-> next(w)]
      BY <1>4 DEF StopBroker
    <2> HIDE DEF next
    <2>4. WorkTypes'
      <3>1. worker' \in [Workers -> Worker]
        BY <2>2, <2>3
      <3>2. inbox' \in Seq(Request)
        BY <2>1
      <3> QED BY <1>2, <1>3, <2>1, <3>1, <3>2 DEF WorkTypes
    <2>5. WorkHasItsRow' /\ CallersWait'
      <3>1. DOMAIN inbox' = {} /\ lastJob' = lastJob
        <4>1. DOMAIN <<>> = {}
          OBVIOUS
        <4> QED BY <2>1, <4>1 DEF store
      <3>2. \A w \in Workers : worker[w].pc \notin {"down", "idle"} => worker[w].job \in 1..lastJob
        BY DEF WorkInv, WorkHasItsRow
      <3> QED BY <2>2, <2>3, <3>1, <3>2 DEF WorkHasItsRow, CallersWait
    <2> QED BY <2>1, <2>4, <2>5, TablesUntouched DEF WorkInv
  <1>5. ASSUME NEW w \in Workers, StopWorker(w) PROVE RowsInv' /\ WorkInv'
    <2>1. /\ worker' = [worker EXCEPT ![w] = Down] /\ inbox' = Abandoned({w}) /\ checked' = {}
          /\ UNCHANGED <<store, journal, host>> /\ Fault
      BY <1>5 DEF StopWorker
    <2>2. Down \in Worker /\ Down.pc = "down"
      BY DEF Down, Worker, Replies
    <2>3. WorkInv'
      <3>1. /\ inbox' \in Seq(Sent) /\ Len(inbox') = Len(inbox)
            /\ \A i \in 1..Len(inbox) : /\ inbox'[i].job = inbox[i].job
                                        /\ inbox'[i].caller \in {inbox[i].caller, None} \ {w}
        BY <1>2, <2>1, AbandonedIsSent
      <3>2. checked' \subseteq Sites /\ faults' \in 0..MaxFaults /\ UNCHANGED <<lastJob, journal, host>>
        BY <1>3, <2>1 DEF store
      <3> QED BY <1>1, <2>1, <2>2, <3>1, <3>2, OneWorkerMoves
    <2> QED BY <2>1, <2>3, TablesUntouched
  <1>6. ASSUME NEW w \in Workers, worker[w].pc \notin {"down", "idle"}, NEW r \in Replies
        PROVE  LET v == [worker[w] EXCEPT !.pc = "answered", !.reply = r]
               IN v \in Worker /\ v.job \in 1..lastJob
    BY <1>2, <1>6 DEF Worker, WorkInv, WorkHasItsRow
  <1>7. ASSUME NEW w \in Workers, DialFails(w) PROVE RowsInv' /\ WorkInv'
    <2> DEFINE v == [worker[w] EXCEPT !.pc = "answered", !.reply = "unavailable"]
    <2>1. /\ worker[w].pc = "claimed" /\ worker' = [worker EXCEPT ![w] = v]
          /\ UNCHANGED <<store, checked, wire>> /\ Fault
      BY <1>7, <1>2 DEF DialFails, Answer
    <2>2. v \in Worker /\ v.job \in 1..lastJob
      BY <1>6, <2>1 DEF Replies
    <2> HIDE DEF v
    <2>3. WorkInv'
      BY <1>1, <1>2, <1>3, <2>1, <2>2, OneWorkerActs DEF store, wire, WorkTypes
    <2> QED BY <2>1, <2>3, TablesUntouched
  <1>8. ASSUME NEW w \in Workers, LoseConnection(w) PROVE RowsInv' /\ WorkInv'
    <2> DEFINE v == [worker[w] EXCEPT !.pc = "answered", !.reply = "unknown"]
    <2>1. /\ worker[w].pc \in {"calling", "answered"} /\ worker' = [worker EXCEPT ![w] = v]
          /\ inbox' = Abandoned({w})
          /\ UNCHANGED <<store, checked, journal, host>> /\ Fault
      BY <1>8, <1>2 DEF LoseConnection, Answer
    <2>2. v \in Worker /\ v.job \in 1..lastJob
      BY <1>6, <2>1 DEF Replies
    <2> HIDE DEF v
    <2>3. checked' \subseteq Sites
      BY <1>2, <2>1 DEF WorkTypes
    <2>4. WorkInv'
      <3>1. /\ inbox' \in Seq(Sent) /\ Len(inbox') = Len(inbox)
            /\ \A i \in 1..Len(inbox) : /\ inbox'[i].job = inbox[i].job
                                        /\ inbox'[i].caller \in {inbox[i].caller, None} \ {w}
        BY <1>2, <2>1, AbandonedIsSent
      <3>2. faults' \in 0..MaxFaults /\ UNCHANGED <<lastJob, journal, host>>
        BY <1>3, <2>1 DEF store
      <3> QED BY <1>1, <2>1, <2>2, <2>3, <3>1, <3>2, OneWorkerMoves
    <2> QED BY <2>1, <2>4, TablesUntouched
  <1> QED BY <1>4, <1>5, <1>7, <1>8 DEF Faults

-----------------------------------------------------------------------------
\* The invariant holds at the start.
LEMMA InitIsSafe == Init => StoreInv
  <1> SUFFICES ASSUME Init PROVE StoreInv
    OBVIOUS
  <1>1. PICK f \in [Established -> Domains] :
          /\ \A s, t \in Established : f[s] = f[t] => s = t
          /\ site = [s \in Sites |-> IF s \in Established
                       THEN [status |-> "active", domain |-> f[s]] ELSE NoRow]
          /\ host = [s \in Sites |-> IF s \in Established THEN Up(f[s]) ELSE Gone]
    BY DEF Init
  <1>2. /\ tomb = {} /\ reservation = {}
        /\ job = [j \in JobId |-> NoJob] /\ lastJob = 0
        /\ checked = {} /\ worker = [w \in Workers |-> Down]
        /\ inbox = <<>> /\ journal = [j \in JobId |-> "none"] /\ faults = 0
    BY DEF Init
  <1>3. \A s \in Sites : site[s] \in SiteRow /\ host[s] \in HostSite
    BY <1>1 DEF NoRow, SiteRow, SiteStatus, TransitStatus, HostSite, Up, Gone
  <1>4. \A s \in Established : s \in Sites /\ site[s].status = "active"
                              /\ site[s].domain = f[s] /\ f[s] \in Domains /\ f[s] # None
    BY <1>1, EstablishedAssumption, NoneAssumption
  <1>5. \A s \in Sites \ Established : site[s].status = "absent" /\ site[s].domain = None
    BY <1>1 DEF NoRow
  <1>6. \A s \in Sites : site[s].status = "active" \/ site[s].status = "absent"
    BY <1>4, <1>5
  <1>7. NoJob \in JobRow /\ NoJob.status = "absent" /\ Down \in Worker /\ Down.pc = "down"
    BY DEF NoJob, JobRow, JobStatus, Down, Worker, Replies
  <1>8. TypeOK
    <2>1. site \in [Sites -> SiteRow] /\ host \in [Sites -> HostSite]
      BY <1>1, <1>3
    <2>2. tomb \subseteq Sites /\ reservation \subseteq Rsv /\ checked \subseteq Sites
      BY <1>2
    <2>3. job \in [JobId -> JobRow] /\ worker \in [Workers -> Worker] /\ journal \in [JobId -> Journals]
      BY <1>2, <1>7 DEF Journals
    <2>4. lastJob \in 0..MaxJobs /\ faults \in 0..MaxFaults /\ inbox \in Seq(Request)
      BY <1>2, BoundsAssumption
    <2> QED BY <2>1, <2>2, <2>3, <2>4 DEF TypeOK
  <1>9. WorkHasItsRow /\ CallersWait
    BY <1>2, <1>7 DEF WorkHasItsRow, CallersWait
  <1>10. RowsWellFormed
    BY <1>2, BoundsAssumption DEF RowsWellFormed, JobId
  <1>11. AbsentSitesHaveNoDomain
    BY <1>4, <1>5 DEF AbsentSitesHaveNoDomain
  <1>12. DomainsDisjoint
    <2>1. reservation = {}
      BY <1>2
    <2>2. ASSUME NEW s \in Sites, NEW t \in Sites, s # t, site[s].domain # None
          PROVE  site[s].domain # site[t].domain
      <3>1. s \in Established /\ site[s].domain = f[s]
        BY <1>4, <1>5, <2>2
      <3>2. CASE t \in Established
        BY <1>1, <1>4, <2>2, <3>1, <3>2
      <3>3. CASE t \notin Established
        BY <1>5, <2>2, <3>3
      <3> QED BY <3>2, <3>3
    <2> QED BY <2>1, <2>2 DEF DomainsDisjoint
  <1>13. reservation = {} /\ \A j \in JobId : job[j].status = "absent"
    BY <1>2, <1>7
  <1>14. ReservationFollowsChange
    BY <1>6, <1>13 DEF ReservationFollowsChange
  <1>15. \A j \in JobId : ~Pending(j)
    BY <1>13 DEF Pending
  <1>16. ReservationHasItsOwner
    BY <1>13, <1>15 DEF ReservationHasItsOwner
  <1>17. LockedSitesAreQuiet
    BY <1>15 DEF LockedSitesAreQuiet
  <1>18. TransitionsHaveTheirJob
    BY <1>6, <1>15 DEF TransitionsHaveTheirJob, TransitStatus
  <1> QED BY <1>8, <1>9, <1>10, <1>11, <1>12, <1>14, <1>16, <1>17, <1>18 DEF StoreInv

\* The invariant is inductive.
LEMMA StepIsSafe == StoreInv /\ [Next]_vars => StoreInv'
  <1> SUFFICES ASSUME StoreInv, [Next]_vars PROVE StoreInv'
    OBVIOUS
  <1>1. RowsInv /\ WorkInv
    BY TwoParts
  <1>2. RowsInv' /\ WorkInv'
    <2>1. CASE Handlers
      BY <1>1, <2>1, HandlersKeepStore
    <2>2. CASE \E w \in Workers : WorkerStep(w)
      BY <1>1, <2>2, WorkerKeepsStore
    <2>3. CASE BrokerStep
      BY <1>1, <2>3, BrokerKeepsStore
    <2>4. CASE Faults
      BY <1>1, <2>4, FaultsKeepStore
    <2>5. CASE UNCHANGED vars
      <3>1. RowsInv'
        BY <1>1, <2>5, TablesUntouched DEF vars
      <3>2. WorkInv'
        BY <1>1, <2>5 DEF vars, wire, store, WorkInv, WorkTypes, WorkHasItsRow, CallersWait
      <3> QED BY <3>1, <3>2
    <2> QED BY <2>1, <2>2, <2>3, <2>4, <2>5 DEF Next
  <1>3. (RowsInv /\ WorkInv => StoreInv)'
    BY TwoParts, PTL
  <1> QED BY <1>2, <1>3

-----------------------------------------------------------------------------
\* The tables, the requests and the workers agree in every reachable state,
\* whatever number of sites, host names, jobs, faults and worker processes.
THEOREM StoreIsSafe == Spec => []StoreInv
  BY InitIsSafe, StepIsSafe, PTL DEF Spec

\* Every variable keeps its type.
THEOREM TypeCorrect == Spec => []TypeOK
  <1>1. StoreInv => TypeOK
    BY DEF StoreInv
  <1> QED BY <1>1, StoreIsSafe, PTL

\* EnqueueDomainChange and CreateSite never hand out a host name twice, and a
\* reserved name stays free until finishDomainChange.
THEOREM DomainsStayDisjoint == Spec => []DomainsDisjoint
  <1>1. StoreInv => DomainsDisjoint
    BY DEF StoreInv
  <1> QED BY <1>1, StoreIsSafe, PTL

\* The jobs_site_lifecycle_lock trigger and siteHasPendingJobs together keep
\* every other job away from a site that is being renamed or deleted.
THEOREM LockedSitesStayQuiet == Spec => []LockedSitesAreQuiet
  <1>1. StoreInv => LockedSitesAreQuiet
    BY DEF StoreInv
  <1> QED BY <1>1, StoreIsSafe, PTL

\* No transitional status is ever left behind without the job that ends it,
\* and no two jobs ever own the status of one site.
THEOREM TransitionsKeepTheirJob == Spec => []TransitionsHaveTheirJob
  <1>1. StoreInv => TransitionsHaveTheirJob
    BY DEF StoreInv
  <1> QED BY <1>1, StoreIsSafe, PTL
-----------------------------------------------------------------------------
(***************************************************************************)
(* What the panel says of its sites and what the host has of them.  The    *)
(* panel runs one worker, and requests get the host's locks in order of    *)
(* arrival: then the request that is waited for is the last one of the     *)
(* inbox, and when it has been carried out nothing that came before it is  *)
(* left to disturb its site.                                               *)
(***************************************************************************)
OneWorker == \A v, w \in Workers : v = w

\* A request that will change the host for site s, and a site without one.
Acts(q, s) == job[q.job].site = s /\ job[q.job].kind \in StatusKinds /\ q.waits = FALSE
Still(s)   == \A i \in DOMAIN inbox : ~Acts(inbox[i], s)

DomainLocked == {"domain_changing", "domain_change_failed"}
Busy         == {"claimed", "calling", "answered"}
Provisioning == {"site.provision", "site.enable", "site.restore_clone"}

\* The broker's requests: the one that is waited for came last, only clones wait
\* inside the broker, and a request that changes its site carries its domain.
RequestsInv ==
    /\ \A i \in DOMAIN inbox : inbox[i].caller # None => i = Len(inbox)
    /\ \A i \in DOMAIN inbox : inbox[i].waits = TRUE => job[inbox[i].job].kind = "site.restore_clone"
    /\ \A i \in DOMAIN inbox, s \in Sites : Acts(inbox[i], s) => inbox[i].domain = site[s].domain
    /\ \A j \in JobId : lastJob < j => journal[j] = "none"
    /\ \A w \in Workers : worker[w].pc \in Busy => job[worker[w].job].status = "running"

\* A site that is active or deleted is as the panel says, and stays so; a row that
\* was never there has had no operation.
SettledInv ==
    /\ \A s \in Sites : site[s].status = "active" => host[s] = Up(site[s].domain) /\ Still(s)
    /\ \A s \in tomb : site[s] = NoRow /\ host[s] = Gone /\ Still(s)
    /\ \A s \in Sites, j \in JobId : site[s].status = "absent" /\ s \notin tomb /\ job[j].site = s =>
         job[j].kind \notin StatusKinds

\* The journal of a domain change says what the host serves.
ChangeTells(j, s) ==
    /\ host[s].files = TRUE
    /\ journal[j] \in {"none", "changing", "activating", "rollback", "complete", "restored"}
    /\ journal[j] \in {"none", "restored"} => host[s] = Up(site[s].domain)
    /\ journal[j] = "complete" => host[s] = Up(job[j].domain)

\* A site whose domain is being changed is touched by that change alone.
ChangesInv ==
    /\ \A i \in DOMAIN inbox, s \in Sites :
         Acts(inbox[i], s) /\ job[inbox[i].job].kind = "site.domain_change" =>
           \E r \in reservation : r.job = inbox[i].job
    /\ \A i \in DOMAIN inbox, s \in Sites :
         Acts(inbox[i], s) /\ site[s].status \in DomainLocked =>
           job[inbox[i].job].kind = "site.domain_change"
    /\ \A r \in reservation : ChangeTells(r.job, r.site)

\* A site has one deletion, after which nothing else is left to do to it.
Deletes(j) == job[j].kind = "site.delete"

DeletesInv ==
    /\ \A j \in JobId : Deletes(j) =>
         job[j].site \in tomb \/ site[job[j].site].status \in {"deleting", "delete_failed"}
    /\ \A i, j \in JobId : Deletes(i) /\ Deletes(j) /\ job[i].site = job[j].site => i = j
    /\ \A j \in JobId : Deletes(j) =>
         /\ journal[j] \in {"none", "removing", "done"}
         /\ journal[j] = "done" => host[job[j].site] = Gone
    /\ \A j \in JobId, i \in DOMAIN inbox : Deletes(j) /\ journal[j] # "none" =>
         (Acts(inbox[i], job[j].site) => inbox[i].job = j)
    /\ \A i, k \in DOMAIN inbox, s \in Sites :
         i < k /\ Acts(inbox[i], s) /\ Acts(inbox[k], s) /\ Deletes(inbox[i].job)
           => inbox[k].job = inbox[i].job

\* A clone that is pending is the only operation its site has had, and the target
\* is up once a call of it waits or has finished.
Cloning(j) == Pending(j) /\ job[j].kind = "site.restore_clone"

ClonesInv ==
    /\ \A i, j \in JobId : Cloning(j) /\ job[i].site = job[j].site /\ job[i].kind \in StatusKinds => i = j
    /\ \A j \in JobId : Cloning(j) /\ journal[j] = "done" =>
         host[job[j].site] = Up(site[job[j].site].domain)
    /\ \A i \in DOMAIN inbox : Cloning(inbox[i].job) /\ inbox[i].waits = TRUE =>
         host[job[inbox[i].job].site] = Up(site[job[inbox[i].job].site].domain)

\* An answer that the worker has got is still true when it records it.
AnswerTrue(j, r) ==
    LET s == job[j].site IN
    /\ r = "ok" /\ job[j].kind \in Provisioning => host[s] = Up(site[s].domain) /\ Still(s)
    /\ r = "ok" /\ job[j].kind = "site.domain_change" => host[s] = Up(job[j].domain) /\ Still(s)
    /\ r = "restored" /\ job[j].kind = "site.domain_change" => host[s] = Up(site[s].domain) /\ Still(s)
    /\ r = "ok" /\ Deletes(j) => host[s] = Gone /\ Still(s)

AnswersInv ==
    \A w \in Workers : worker[w].pc = "answered" => AnswerTrue(worker[w].job, worker[w].reply)

HostInv == RequestsInv /\ SettledInv /\ ChangesInv /\ DeletesInv /\ ClonesInv /\ AnswersInv

\* The rows that are there stay what they are; only their status changes.
KeepsRows ==
    /\ lastJob <= lastJob'
    /\ \A j \in 1..lastJob : /\ job'[j].kind = job[j].kind /\ job'[j].site = job[j].site
                             /\ job'[j].source = job[j].source /\ job'[j].domain = job[j].domain

\* What every step may rely on.
LEMMA Known ==
  ASSUME StoreInv
  PROVE  /\ lastJob \in Nat /\ MaxJobs \in Nat /\ lastJob <= MaxJobs /\ 1..lastJob \subseteq JobId
         /\ \A j \in JobId : j \in Nat /\ (j \in 1..lastJob <=> j <= lastJob)
         /\ \A s \in Sites : site[s].status = "absent" <=> site[s].domain = None
         /\ \A j \in 1..lastJob : job[j].kind \in JobKinds /\ job[j].site \in Sites
         /\ \A j \in JobId : lastJob < j => job[j] = NoJob
         /\ inbox \in Seq(Sent) /\ Len(inbox) \in Nat /\ DOMAIN inbox = 1..Len(inbox)
         /\ \A i \in DOMAIN inbox : inbox[i] \in Sent /\ inbox[i].job \in 1..lastJob
         /\ \A w \in Workers : worker[w].pc \in Busy => worker[w].job \in 1..lastJob
         /\ \A r \in reservation : /\ r.job \in 1..lastJob /\ r.site \in Sites /\ job[r.job].site = r.site
                                   /\ job[r.job].kind = "site.domain_change"
                                   /\ site[r.site].status \in DomainLocked
  <1>1. RowsInv /\ WorkInv
    BY TwoParts
  <1>2. lastJob \in 0..MaxJobs /\ MaxJobs \in Nat /\ JobId = 1..MaxJobs
    BY <1>1, BoundsAssumption DEF RowsInv, RowTypes, JobId
  <1>3. inbox \in Seq(Sent)
    BY <1>1, InboxIsSent
  <1>4. \A w \in Workers : worker[w].pc \in Busy => worker[w].job \in 1..lastJob
    BY <1>1 DEF WorkInv, WorkHasItsRow, Busy
  <1>5. \A s \in Sites : site[s].status = "absent" <=> site[s].domain = None
    BY <1>1 DEF RowsInv, AbsentSitesHaveNoDomain
  <1>6. \A j \in JobId : j <= lastJob => job[j].kind \in JobKinds /\ job[j].site \in Sites
    BY <1>1 DEF RowsInv, RowsWellFormed
  <1>7. \A j \in JobId : lastJob < j => job[j] = NoJob
    BY <1>1, <1>2 DEF RowsInv, RowsWellFormed
  <1>8. ASSUME NEW r \in reservation
        PROVE  /\ r.job \in 1..lastJob /\ r.site \in Sites /\ job[r.job].site = r.site
               /\ job[r.job].kind = "site.domain_change" /\ site[r.site].status \in DomainLocked
    <2>1. r \in Rsv
      BY <1>1 DEF RowsInv, RowTypes
    <2>2. r.job \in JobId /\ r.site \in Sites
      BY <2>1 DEF Rsv
    <2>3. /\ job[r.job].kind = "site.domain_change" /\ job[r.job].site = r.site /\ job[r.job].domain = r.domain
          /\ job[r.job].status \in {"queued", "running", "failed"}
      BY <1>1 DEF RowsInv, ReservationHasItsOwner
    <2>4. r.job <= lastJob
      BY <1>2, <1>7, <2>2, <2>3 DEF NoJob
    <2>5. site[r.site].status \in DomainLocked
      BY <1>1, <2>2, <2>3 DEF RowsInv, ReservationFollowsChange, DomainLocked
    <2> QED BY <1>2, <2>2, <2>3, <2>4, <2>5
  <1>9. /\ Len(inbox) \in Nat /\ DOMAIN inbox = 1..Len(inbox)
        /\ \A i \in DOMAIN inbox : inbox[i] \in Sent /\ inbox[i].job \in 1..lastJob
    BY <1>3 DEF Sent
  <1> QED BY <1>2, <1>3, <1>4, <1>5, <1>6, <1>7, <1>8, <1>9

\* A status job that is pending has its site to itself.
LEMMA OwnStatus ==
  ASSUME StoreInv
  PROVE  \A j \in JobId : Pending(j) /\ job[j].kind \in StatusKinds =>
           /\ site[job[j].site].status = Transit[job[j].kind]
           /\ \A i \in JobId : Pending(i) /\ job[i].kind \in StatusKinds /\ job[i].site = job[j].site => i = j
  BY DEF StoreInv, TransitionsHaveTheirJob
\* The same facts of the state after a step.
TablesKnown ==
    /\ lastJob \in Nat /\ MaxJobs \in Nat /\ lastJob <= MaxJobs
    /\ \A s \in Sites : site[s].status = "absent" <=> site[s].domain = None
    /\ \A j \in JobId : lastJob < j => job[j] = NoJob
    /\ \A r \in reservation :
         /\ r.job \in 1..lastJob /\ r.site \in Sites /\ job[r.job].site = r.site
         /\ job[r.job].kind = "site.domain_change" /\ site[r.site].status \in DomainLocked

LEMMA TablesAreKnown == StoreInv => TablesKnown
  BY Known DEF TablesKnown

LEMMA KnownAfter ==
  ASSUME StoreInv'
  PROVE  /\ lastJob' \in Nat /\ MaxJobs \in Nat /\ lastJob' <= MaxJobs
         /\ \A s \in Sites : site'[s].status = "absent" <=> site'[s].domain = None
         /\ \A j \in JobId : lastJob' < j => job'[j] = NoJob
         /\ \A r \in reservation' :
              /\ r.job \in 1..lastJob' /\ r.site \in Sites /\ job'[r.job].site = r.site
              /\ job'[r.job].kind = "site.domain_change" /\ site'[r.site].status \in DomainLocked
  <1>1. (StoreInv => TablesKnown)'
    BY TablesAreKnown, PTL
  <1> QED BY <1>1 DEF TablesKnown

LEMMA OwnStatusAfter ==
  ASSUME StoreInv'
  PROVE  \A j \in JobId : Pending(j)' /\ job'[j].kind \in StatusKinds =>
           /\ site'[job'[j].site].status = Transit[job'[j].kind]
           /\ \A i \in JobId : Pending(i)' /\ job'[i].kind \in StatusKinds /\ job'[i].site = job'[j].site
                => i = j
  BY DEF StoreInv, TransitionsHaveTheirJob, Pending

\* A step of the tables.  What it may do to a site: give it another domain when no
\* request will touch it; make it active when it is up; lock it when it is still.
DomainsMove ==
    \A s \in Sites : site'[s].domain # site[s].domain =>
      /\ Still(s) /\ s \notin tomb
      /\ \A r \in reservation' : r.site # s
      /\ \A j \in 1..lastJob : job[j].site = s => ~Cloning(j)'
      /\ \A w \in Workers : worker'[w].pc = "answered" /\ job[worker'[w].job].site = s =>
           job[worker'[w].job].kind \notin StatusKinds

StatusMoves ==
    \A s \in Sites :
      /\ site'[s].status = "active" =>
           site'[s] = site[s] \/ (host[s] = Up(site'[s].domain) /\ Still(s))
      /\ site'[s].status \in DomainLocked => site[s].status \in DomainLocked \/ Still(s)
      /\ s \in tomb' => s \in tomb \/ (site'[s] = NoRow /\ host[s] = Gone /\ Still(s))
      /\ s \in tomb => s \in tomb' /\ site'[s] = site[s]
      /\ site'[s].status = "absent" /\ s \notin tomb' => site[s].status = "absent"

ReservationsMove ==
    /\ \A r \in reservation' : r \in reservation \/ ChangeTells(r.job, r.site)'
    /\ \A r \in reservation : r \in reservation' \/ Still(r.site)

JobsMove ==
    /\ \A j \in JobId : lastJob < j /\ job'[j].kind \in StatusKinds => Pending(j)'
    /\ \A j \in JobId : Deletes(j)' =>
         job'[j].site \in tomb' \/ site'[job'[j].site].status \in {"deleting", "delete_failed"}
    /\ \A i, j \in JobId : Deletes(i)' /\ Deletes(j)' /\ job'[i].site = job'[j].site => i = j
    /\ \A j \in JobId : Cloning(j)' =>
         \/ j \in 1..lastJob /\ Cloning(j)
         \/ /\ lastJob < j
            /\ \A i \in 1..lastJob : job[i].site = job'[j].site => job[i].kind \notin StatusKinds

WorkersMove ==
    \A w \in Workers :
      /\ worker'[w].pc \in Busy => job'[worker'[w].job].status = "running"
      /\ worker'[w].pc = "answered" =>
           /\ worker'[w].job \in 1..lastJob
           /\ worker'[w] = worker[w] \/ worker'[w].reply \notin {"ok", "restored"}

LEMMA TablesMove ==
  ASSUME StoreInv, StoreInv', HostInv, KeepsRows, UNCHANGED <<inbox, journal, host>>,
         DomainsMove, StatusMoves, ReservationsMove, JobsMove, WorkersMove
  PROVE  HostInv'
  <1>1. \A i \in DOMAIN inbox : inbox[i].job \in 1..lastJob
    BY Known
  <1>2. \A i \in DOMAIN inbox : /\ job'[inbox[i].job].kind = job[inbox[i].job].kind
                                /\ job'[inbox[i].job].site = job[inbox[i].job].site
    BY <1>1 DEF KeepsRows
  <1>3. \A i \in DOMAIN inbox : \A s : Acts(inbox[i], s)' <=> Acts(inbox[i], s)
    BY <1>2 DEF Acts
  <1>4. \A s : Still(s)' <=> Still(s)
    BY <1>3 DEF Still
  <1>5. RequestsInv'
    <2>1. \A i \in DOMAIN inbox', s \in Sites : Acts(inbox[i], s)' => inbox'[i].domain = site'[s].domain
      BY <1>3 DEF HostInv, RequestsInv, DomainsMove, Still
    <2>2. \A j \in JobId : lastJob' < j => journal'[j] = "none"
      BY Known, KnownAfter DEF HostInv, RequestsInv, KeepsRows
    <2> QED BY <1>2, <2>1, <2>2 DEF HostInv, RequestsInv, WorkersMove
  <1>6. SettledInv'
    <2>1. \A s \in Sites : site'[s].status = "active" => host'[s] = Up(site'[s].domain) /\ Still(s)'
      BY <1>4 DEF HostInv, SettledInv, StatusMoves
    <2>2. ASSUME NEW s \in tomb' PROVE site'[s] = NoRow /\ host'[s] = Gone /\ Still(s)'
      <3>1. s \in Sites
        BY DEF StoreInv, TypeOK
      <3> QED BY <1>4, <2>2, <3>1 DEF HostInv, SettledInv, StatusMoves
    <2>3. ASSUME NEW s \in Sites, NEW j \in JobId,
                 site'[s].status = "absent", s \notin tomb', job'[j].site = s,
                 job'[j].kind \in StatusKinds
          PROVE  FALSE
      <3>1. site[s].status = "absent" /\ s \notin tomb
        BY <2>3 DEF StatusMoves
      <3>2. CASE j <= lastJob
        <4>1. job[j].site = s /\ job[j].kind \in StatusKinds
          BY <2>3, <3>2, Known DEF KeepsRows
        <4> QED BY <2>3, <3>1, <4>1 DEF HostInv, SettledInv
      <3>3. CASE lastJob < j
        <4>1. site'[s].status = Transit[job'[j].kind]
          BY <2>3, <3>3, OwnStatusAfter DEF JobsMove
        <4> QED BY <2>3, <4>1, KindFacts
      <3> QED BY <3>2, <3>3, Known
    <2> QED BY <2>1, <2>2, <2>3 DEF SettledInv
  <1>7. ChangesInv'
    <2>1. ASSUME NEW i \in DOMAIN inbox', NEW s \in Sites, Acts(inbox[i], s)',
                 job'[inbox'[i].job].kind = "site.domain_change"
          PROVE  \E r \in reservation' : r.job = inbox'[i].job
      <3>1. Acts(inbox[i], s) /\ job[inbox[i].job].kind = "site.domain_change"
        BY <1>2, <1>3, <2>1
      <3>2. PICK r \in reservation : r.job = inbox[i].job
        BY <2>1, <3>1 DEF HostInv, ChangesInv
      <3>3. r.site = s
        BY <3>1, <3>2, Known DEF Acts
      <3>4. ~Still(r.site)
        BY <2>1, <3>1, <3>3 DEF Still
      <3> QED BY <3>2, <3>4 DEF ReservationsMove
    <2>2. \A i \in DOMAIN inbox', s \in Sites :
             Acts(inbox[i], s)' /\ site'[s].status \in DomainLocked =>
               job'[inbox'[i].job].kind = "site.domain_change"
      BY <1>2, <1>3 DEF HostInv, ChangesInv, StatusMoves, Still
    <2>3. ASSUME NEW r \in reservation', r \in reservation PROVE ChangeTells(r.job, r.site)'
      <3>1. r.job \in 1..lastJob /\ r.site \in Sites
        BY <2>3, Known
      <3>2. site'[r.site].domain = site[r.site].domain /\ job'[r.job].domain = job[r.job].domain
        BY <2>3, <3>1 DEF KeepsRows, DomainsMove
      <3> QED BY <2>3, <3>2 DEF HostInv, ChangesInv, ChangeTells
    <2> QED BY <2>1, <2>2, <2>3 DEF ChangesInv, ReservationsMove
  <1>8. DeletesInv'
    <2>1. ASSUME NEW j \in JobId, Deletes(j)' PROVE journal[j] = "none" \/ (Deletes(j) /\ job'[j].site = job[j].site)
      BY <2>1, Known DEF HostInv, RequestsInv, KeepsRows, Deletes
    <2>2. \A j \in JobId : Deletes(j)' =>
             /\ journal'[j] \in {"none", "removing", "done"}
             /\ journal'[j] = "done" => host'[job'[j].site] = Gone
      BY <2>1 DEF HostInv, DeletesInv
    <2>3. \A j \in JobId, i \in DOMAIN inbox' : Deletes(j)' /\ journal'[j] # "none" =>
            (Acts(inbox[i], job[j].site)' => inbox'[i].job = j)
      BY <1>3, <2>1 DEF HostInv, DeletesInv
    <2>4. \A i, k \in DOMAIN inbox', s \in Sites :
            i < k /\ Acts(inbox[i], s)' /\ Acts(inbox[k], s)' /\ Deletes(inbox[i].job)'
              => inbox'[k].job = inbox'[i].job
      BY <1>2, <1>3 DEF HostInv, DeletesInv, Deletes
    <2> QED BY <2>2, <2>3, <2>4 DEF DeletesInv, JobsMove
  <1>9. ClonesInv'
    <2>1. ASSUME NEW j \in JobId, Cloning(j)', j \in 1..lastJob, Cloning(j)
          PROVE  site'[job'[j].site].domain = site[job[j].site].domain /\ job'[j].site = job[j].site
                 /\ job[j].site \in Sites
      BY <2>1, Known DEF DomainsMove, KeepsRows
    <2>2. ASSUME NEW i \in JobId, NEW j \in JobId, Cloning(j)', job'[i].site = job'[j].site,
                 job'[i].kind \in StatusKinds
          PROVE  i = j
      <3>1. CASE lastJob < i
        BY <2>2, <3>1, KindFacts, OwnStatusAfter DEF JobsMove, Cloning
      <3>2. CASE i <= lastJob
        <4>1. job[i].site = job'[j].site /\ job[i].kind \in StatusKinds /\ i \in 1..lastJob
          BY <2>2, <3>2, Known DEF KeepsRows
        <4>2. j \in 1..lastJob /\ Cloning(j) /\ job[j].site = job'[j].site
          BY <2>2, <4>1 DEF JobsMove, KeepsRows
        <4> QED BY <4>1, <4>2 DEF HostInv, ClonesInv
      <3> QED BY <3>1, <3>2, Known
    <2>3. ASSUME NEW j \in JobId, Cloning(j)', journal'[j] = "done"
          PROVE  host'[job'[j].site] = Up(site'[job'[j].site].domain)
      <3>1. j \in 1..lastJob /\ Cloning(j)
        BY <2>3 DEF JobsMove, HostInv, RequestsInv
      <3> QED BY <2>1, <2>3, <3>1 DEF HostInv, ClonesInv
    <2>4. ASSUME NEW i \in DOMAIN inbox', Cloning(inbox[i].job)', inbox'[i].waits = TRUE
          PROVE  host'[job'[inbox'[i].job].site] = Up(site'[job'[inbox'[i].job].site].domain)
      <3>1. inbox[i].job \in 1..lastJob /\ inbox[i].job \in JobId
        BY <1>1, Known
      <3>2. Cloning(inbox[i].job)
        BY <2>4, <3>1, Known DEF JobsMove
      <3> QED BY <2>1, <2>4, <3>1, <3>2 DEF HostInv, ClonesInv
    <2> QED BY <2>2, <2>3, <2>4 DEF ClonesInv
  <1>10. AnswersInv'
    <2> SUFFICES ASSUME NEW w \in Workers, worker'[w].pc = "answered"
                 PROVE  AnswerTrue(worker[w].job, worker[w].reply)'
      BY DEF AnswersInv
    <2>1. CASE worker'[w].reply \notin {"ok", "restored"}
      BY <2>1 DEF AnswerTrue
    <2>2. CASE worker'[w] = worker[w]
      <3>1. PICK j \in 1..lastJob : j = worker[w].job
        BY <2>2 DEF WorkersMove
      <3>2. /\ job'[j].kind = job[j].kind /\ job'[j].site = job[j].site /\ job'[j].domain = job[j].domain
            /\ job[j].site \in Sites
        BY Known DEF KeepsRows
      <3>3. AnswerTrue(j, worker[w].reply)
        BY <2>2, <3>1 DEF HostInv, AnswersInv
      <3>4. CASE job[j].kind \in StatusKinds
        <4>1. site'[job[j].site].domain = site[job[j].site].domain
          BY <2>2, <3>1, <3>2, <3>4 DEF DomainsMove
        <4>2. AnswerTrue(j, worker[w].reply)'
          BY <1>4, <2>2, <3>2, <3>3, <4>1 DEF AnswerTrue, Deletes
        <4> QED BY <2>2, <3>1, <4>2
      <3>5. CASE job[j].kind \notin StatusKinds
        BY <2>2, <3>1, <3>2, <3>5, KindFacts DEF AnswerTrue, Deletes, Provisioning
      <3> QED BY <3>4, <3>5
    <2> QED BY <2>1, <2>2 DEF WorkersMove
  <1> QED BY <1>5, <1>6, <1>7, <1>8, <1>9, <1>10 DEF HostInv
\* A row that was appended is the only new one.
LEMMA Inserted ==
  ASSUME StoreInv, NEW k \in JobKinds, NEW s \in Sites, NEW src \in Sites \cup {None},
         NEW d \in Domains \cup {None}, InsertJob(k, s, src, d),
         IF k = "site.restore_clone" THEN src \in Sites ELSE src = None
  PROVE  /\ KeepsRows /\ lastJob' = lastJob + 1 /\ lastJob + 1 \in JobId
         /\ job'[lastJob + 1].kind = k /\ job'[lastJob + 1].site = s
         /\ job'[lastJob + 1].domain = d /\ job'[lastJob + 1].status = "queued"
         /\ \A j \in JobId : j # lastJob + 1 => job'[j] = job[j]
         /\ \A j \in JobId : lastJob < j => j = lastJob + 1 \/ job'[j] = NoJob
  <1>1. RowsInv
    BY TwoParts
  <1>2. /\ lastJob + 1 \in JobId /\ lastJob' = lastJob + 1
        /\ job'[lastJob + 1].kind = k /\ job'[lastJob + 1].site = s
        /\ job'[lastJob + 1].domain = d /\ job'[lastJob + 1].status = "queued"
        /\ \A j \in JobId : j # lastJob + 1 => job'[j] = job[j]
    BY <1>1, InsertedRow
  <1>3. KeepsRows
    BY <1>2, Known DEF KeepsRows
  <1>4. \A j \in JobId : lastJob < j => j = lastJob + 1 \/ job'[j] = NoJob
    BY <1>2, Known
  <1> QED BY <1>2, <1>3, <1>4

\* Workers whose rows are still running go on as they were.
LEMMA WorkersRest ==
  ASSUME StoreInv, HostInv, UNCHANGED worker,
         \A j \in 1..lastJob : job[j].status = "running" => job'[j].status = "running"
  PROVE  WorkersMove
  BY Known DEF WorkersMove, HostInv, RequestsInv, Busy

\* A new row, of a site that is there or that its own row was made for.
LEMMA InsertKeepsHost ==
  ASSUME StoreInv, StoreInv', HostInv, NEW k \in JobKinds, NEW s \in Sites,
         NEW src \in Sites \cup {None}, NEW d \in Domains \cup {None}, InsertJob(k, s, src, d),
         IF k = "site.restore_clone" THEN src \in Sites ELSE src = None,
         UNCHANGED <<tomb, worker, inbox, journal, host>>,
         \A t \in Sites : t # s => site'[t] = site[t],
         ReservationsMove,
         \/ site'[s] = site[s] /\ k \notin StatusKinds
         \/ /\ k \in StatusKinds \ {"site.restore_clone"}
            /\ site'[s].domain = site[s].domain /\ site[s].status \notin LockedStatus \cup {"absent"}
            /\ site'[s].status = Transit[k]
            /\ k = "site.domain_change" => Still(s)
         \/ /\ k \in {"site.provision", "site.restore_clone"}
            /\ site[s].status = "absent" /\ s \notin tomb
            /\ site'[s].status = "queued"
  PROVE  HostInv'
  <1>0. PICK n \in JobId : n = lastJob + 1
    BY Inserted
  <1>1. /\ KeepsRows /\ n \in JobId /\ job'[n].kind = k /\ job'[n].site = s /\ job'[n].status = "queued"
        /\ \A j \in JobId : j # n => job'[j] = job[j]
        /\ \A j \in JobId : lastJob < j => j = n \/ job'[j] = NoJob
    BY <1>0, Inserted
  <1>2. NoJob.kind \notin StatusKinds /\ NoJob.status = "absent"
    BY KindsAssumption, KindFacts DEF NoJob
  <1>3. /\ \A j \in JobId : j \in 1..lastJob => job'[j] = job[j] /\ j # n
        /\ \A j \in JobId : j \in 1..lastJob \/ j = n \/ job'[j] = NoJob
        /\ lastJob \in Nat /\ lastJob < n
    <2>1. lastJob \in Nat /\ lastJob < n
      BY <1>0, Known
    <2> QED BY <1>1, <2>1, Known
  <1>4. WorkersMove
    <2>1. \A j \in 1..lastJob : job'[j] = job[j]
      BY <1>3, Known
    <2> QED BY <2>1, WorkersRest
  <1>5. ASSUME site[s].status = "absent", s \notin tomb
        PROVE  Still(s) /\ \A j \in JobId : job[j].site = s => job[j].kind \notin StatusKinds
    BY <1>5, Known DEF HostInv, SettledInv, Still, Acts
  <1>6. ASSUME NEW t \in Sites, site'[t] # site[t]
        PROVE  /\ t = s /\ t \notin tomb /\ site'[t].status \notin {"active", "absent"}
               /\ site'[t].status \in DomainLocked => Still(t)
    <2>1. t = s
      BY <1>6
    <2>2. t \notin tomb
      BY <1>6, <2>1 DEF HostInv, SettledInv, NoRow
    <2>3. site'[s].status \notin {"active", "absent"} /\ (site'[s].status \in DomainLocked => Still(s))
      BY <1>6, <2>1, KindFacts DEF DomainLocked
    <2> QED BY <2>1, <2>2, <2>3
  <1>7. StatusMoves
    <2> SUFFICES ASSUME NEW t \in Sites
                 PROVE  /\ site'[t].status = "active" => site'[t] = site[t]
                        /\ site'[t].status \in DomainLocked => site[t].status \in DomainLocked \/ Still(t)
                        /\ t \in tomb => site'[t] = site[t]
                        /\ site'[t].status = "absent" => site[t].status = "absent"
      BY DEF StatusMoves
    <2> QED BY <1>6
  <1>8. DomainsMove
    <2> SUFFICES ASSUME NEW t \in Sites, site'[t].domain # site[t].domain
                 PROVE  /\ Still(t) /\ t \notin tomb
                        /\ \A r \in reservation' : r.site # t
                        /\ \A j \in 1..lastJob : job[j].site = t => ~Cloning(j)'
                        /\ \A w \in Workers : worker'[w].pc = "answered" /\ job[worker'[w].job].site = t =>
                             job[worker'[w].job].kind \notin StatusKinds
      BY DEF DomainsMove
    <2>1. t = s /\ t \notin tomb /\ site'[s].status = "queued" /\ site[s].status = "absent"
      <3>1. t = s /\ t \notin tomb
        BY <1>6
      <3> QED BY <3>1
    <2>2. Still(s) /\ \A j \in JobId : job[j].site = s => job[j].kind \notin StatusKinds
      BY <1>5, <2>1
    <2>3. \A r \in reservation' : r.site # s
      BY <2>1, KnownAfter DEF DomainLocked
    <2>4. \A j \in 1..lastJob : job[j].site = s => ~Cloning(j)'
      <3> SUFFICES ASSUME NEW j \in 1..lastJob, job[j].site = s PROVE ~Cloning(j)'
        OBVIOUS
      <3>1. j \in JobId /\ job'[j] = job[j]
        BY <1>3, Known
      <3>2. job'[j].kind # "site.restore_clone"
        BY <2>2, <3>1, KindFacts
      <3> QED BY <3>2 DEF Cloning
    <2>5. \A w \in Workers : worker'[w].pc = "answered" /\ job[worker'[w].job].site = s =>
             job[worker'[w].job].kind \notin StatusKinds
      BY <2>2, Known DEF Busy
    <2> QED BY <2>1, <2>2, <2>3, <2>4, <2>5
  <1>9. JobsMove
    <2>1. \A j \in JobId : lastJob < j /\ job'[j].kind \in StatusKinds => Pending(j)'
      <3> SUFFICES ASSUME NEW j \in JobId, lastJob < j, job'[j].kind \in StatusKinds PROVE Pending(j)'
        OBVIOUS
      <3>1. j = n
        BY <1>1, <1>2
      <3> QED BY <1>1, <3>1 DEF Pending
    <2>2. ASSUME NEW j \in JobId, Deletes(j)', j # n
          PROVE  Deletes(j) /\ job'[j].site = job[j].site /\ job[j].site \in Sites
      BY <1>1, <1>2, <1>3, <2>2, KindFacts, Known DEF Deletes
    <2>3. ASSUME Deletes(n)'
          PROVE  /\ site'[s].status = "deleting"
                 /\ \A j \in JobId : Deletes(j) => job[j].site # s
      <3>1. k = "site.delete"
        BY <1>1, <2>3 DEF Deletes
      <3>2. site[s].status \notin LockedStatus \cup {"absent"} /\ site'[s].status = "deleting"
        BY <3>1, KindFacts
      <3>3. s \notin tomb
        BY <3>2 DEF HostInv, SettledInv, NoRow
      <3> QED BY <3>2, <3>3 DEF HostInv, DeletesInv, LockedStatus
    <2>4. ASSUME NEW j \in JobId, Deletes(j)'
          PROVE  job'[j].site \in tomb' \/ site'[job'[j].site].status \in {"deleting", "delete_failed"}
      <3>1. CASE j = n
        BY <1>1, <2>3, <2>4, <3>1
      <3>2. CASE j # n
        <4>1. Deletes(j) /\ job'[j].site = job[j].site /\ job[j].site \in Sites
          BY <2>2, <2>4, <3>2
        <4>2. job[j].site \in tomb \/ site[job[j].site].status \in {"deleting", "delete_failed"}
          BY <4>1 DEF HostInv, DeletesInv
        <4>3. site'[job[j].site] = site[job[j].site] \/ job[j].site = s
          BY <4>1
        <4>4. CASE job[j].site = s /\ site'[s] # site[s]
          <5>1. \A i \in JobId : job[i].site = s /\ job[i].kind \in StatusKinds => site[s].status # "absent" \/ s \in tomb
            BY DEF HostInv, SettledInv
          <5>2. s \notin tomb
            BY <1>6, <4>4
          <5> QED BY <4>1, <4>2, <4>4, <5>1, <5>2, KindFacts DEF Deletes, LockedStatus
        <4> QED BY <4>1, <4>2, <4>3, <4>4
      <3> QED BY <3>1, <3>2
    <2>5. ASSUME NEW i \in JobId, NEW j \in JobId, Deletes(i)', Deletes(j)', job'[i].site = job'[j].site
          PROVE  i = j
      <3>1. CASE i # n /\ j # n
        BY <2>2, <2>5, <3>1 DEF HostInv, DeletesInv
      <3>2. CASE i = n \/ j = n
        BY <1>1, <2>2, <2>3, <2>5, <3>2
      <3> QED BY <3>1, <3>2
    <2>6. ASSUME NEW j \in JobId, Cloning(j)'
          PROVE  \/ j \in 1..lastJob /\ Cloning(j)
                 \/ /\ lastJob < j
                    /\ \A i \in 1..lastJob : job[i].site = job'[j].site => job[i].kind \notin StatusKinds
      <3>1. CASE j \in 1..lastJob
        <4>1. job'[j] = job[j]
          BY <1>3, <3>1
        <4>2. Cloning(j)
          BY <2>6, <4>1 DEF Cloning, Pending
        <4> QED BY <3>1, <4>2
      <3>2. CASE j \notin 1..lastJob
        <4>1. j = n
          BY <1>2, <1>3, <2>6, <3>2, KindFacts DEF Cloning
        <4>2. site[s].status = "absent" /\ s \notin tomb
          BY <1>1, <2>6, <4>1, KindFacts DEF Cloning
        <4> QED BY <1>1, <1>3, <1>5, <4>1, <4>2, Known
      <3> QED BY <3>1, <3>2
    <2> QED BY <2>1, <2>4, <2>5, <2>6 DEF JobsMove
  <1> QED BY <1>1, <1>4, <1>7, <1>8, <1>9, TablesMove
\* Rows that only change their status.
LEMMA OldRowsKeepHost ==
  ASSUME StoreInv, StoreInv', HostInv, KeepsRows, UNCHANGED <<lastJob, inbox, journal, host>>,
         DomainsMove, StatusMoves, ReservationsMove, WorkersMove,
         \A j \in JobId : Cloning(j)' => Cloning(j),
         \A s \in Sites : site[s].status \in {"deleting", "delete_failed"} =>
           s \in tomb' \/ site'[s].status \in {"deleting", "delete_failed"}
  PROVE  HostInv'
  <1>1. \A j \in JobId : lastJob < j => job'[j].kind \notin StatusKinds
    BY KnownAfter, KindsAssumption, KindFacts DEF NoJob
  <1>2. ASSUME NEW j \in JobId, job'[j].kind \in StatusKinds
        PROVE  j \in 1..lastJob /\ job'[j].kind = job[j].kind /\ job'[j].site = job[j].site
               /\ job[j].site \in Sites
    BY <1>1, <1>2, Known DEF KeepsRows
  <1>3. \A j \in JobId : Deletes(j)' => Deletes(j) /\ job'[j].site = job[j].site /\ job[j].site \in Sites
    BY <1>2, KindFacts DEF Deletes
  <1>4. JobsMove
    <2>1. \A j \in JobId : Deletes(j)' =>
             job'[j].site \in tomb' \/ site'[job'[j].site].status \in {"deleting", "delete_failed"}
      BY <1>3 DEF HostInv, DeletesInv, StatusMoves
    <2>2. \A i, j \in JobId : Deletes(i)' /\ Deletes(j)' /\ job'[i].site = job'[j].site => i = j
      BY <1>3 DEF HostInv, DeletesInv
    <2>3. \A j \in JobId : Cloning(j)' => j \in 1..lastJob
      BY <1>2, KindFacts DEF Cloning
    <2> QED BY <1>1, <2>1, <2>2, <2>3 DEF JobsMove
  <1> QED BY <1>4, TablesMove

\* Steps that leave the sites alone.
LEMMA SitesRest ==
  ASSUME StoreInv, HostInv, UNCHANGED <<site, tomb>>
  PROVE  DomainsMove /\ StatusMoves
  BY DEF DomainsMove, StatusMoves

LEMMA ReservationsRest == UNCHANGED reservation => ReservationsMove
  BY DEF ReservationsMove

\* A failed lifecycle job that is queued again.
LEMMA RetryKeepsHost ==
  ASSUME StoreInv, StoreInv', HostInv, NEW s \in Sites, NEW k \in LifecycleKinds, NEW failed,
         RetryFailedLifecycleJob(s, k, failed),
         failed = IF k = "site.delete" THEN "delete_failed" ELSE "domain_change_failed"
  PROVE  HostInv'
  <1>1. PICK n \in JobId : /\ job[n].kind = k /\ job[n].status = "failed"
                           /\ job' = [job EXCEPT ![n].status = "queued"]
    BY DEF RetryFailedLifecycleJob
  <1>2. job \in [JobId -> JobRow] /\ site \in [Sites -> SiteRow]
    BY DEF StoreInv, TypeOK
  <1>3. /\ site[s].status = failed /\ site' = [site EXCEPT ![s].status = Transit[k]]
        /\ UNCHANGED <<tomb, reservation, lastJob, worker, inbox, journal, host>>
    BY DEF RetryFailedLifecycleJob, SetStatus, Elsewhere, wire
  <1>4. \A j \in JobId : /\ job'[j].kind = job[j].kind /\ job'[j].site = job[j].site
                         /\ job'[j].source = job[j].source /\ job'[j].domain = job[j].domain
                         /\ job'[j].status = IF j = n THEN "queued" ELSE job[j].status
    BY <1>1, <1>2 DEF JobRow
  <1>5. \A t \in Sites : /\ site'[t].domain = site[t].domain
                         /\ site'[t].status = IF t = s THEN Transit[k] ELSE site[t].status
                         /\ t # s => site'[t] = site[t]
    BY <1>2, <1>3 DEF SiteRow
  <1>6. KeepsRows
    BY <1>3, <1>4, Known DEF KeepsRows
  <1>7. s \notin tomb
    BY <1>3 DEF HostInv, SettledInv, NoRow
  <1>8. Transit[k] \in {"domain_changing", "deleting"} /\ (Transit[k] = "deleting" <=> k = "site.delete")
    BY KindFacts DEF LifecycleKinds
  <1>9. DomainsMove
    BY <1>5 DEF DomainsMove
  <1>10. StatusMoves
    <2> SUFFICES ASSUME NEW t \in Sites
                 PROVE  /\ site'[t].status = "active" => site'[t] = site[t]
                        /\ site'[t].status \in DomainLocked => site[t].status \in DomainLocked
                        /\ t \in tomb => site'[t] = site[t]
                        /\ site'[t].status = "absent" => site[t].status = "absent"
      BY <1>3 DEF StatusMoves
    <2> QED BY <1>3, <1>5, <1>7, <1>8 DEF DomainLocked
  <1>11. WorkersMove
    <2>1. \A j \in 1..lastJob : job[j].status = "running" => job'[j].status = "running"
      BY <1>1, <1>4, Known
    <2> QED BY <1>3, <2>1, WorkersRest
  <1>12. \A j \in JobId : Cloning(j)' => Cloning(j)
    <2>1. k # "site.restore_clone"
      BY DEF LifecycleKinds
    <2> QED BY <1>1, <1>4, <2>1 DEF Cloning, Pending
  <1>13. \A t \in Sites : site[t].status \in {"deleting", "delete_failed"} =>
           site'[t].status \in {"deleting", "delete_failed"}
    BY <1>3, <1>5, <1>8
  <1>14. ReservationsMove
    BY <1>3, ReservationsRest
  <1> QED BY <1>3, <1>6, <1>9, <1>10, <1>11, <1>12, <1>13, <1>14, OldRowsKeepHost

\* No handler breaks the agreement with the host.
LEMMA HandlersKeepHost ==
  ASSUME StoreInv, StoreInv', HostInv, Handlers
  PROVE  HostInv'
  <1>1. PICK s \in Sites :
          \/ EnqueueSiteDisable(s) \/ EnqueueSiteEnable(s) \/ EnqueueSiteProvisionRetry(s)
          \/ EnqueueSiteDelete(s) \/ RetryDomainChange(s) \/ RetrySiteDelete(s)
          \/ EnqueueSiteBackup(s) \/ ReadSnippetSite(s) \/ SetSiteSnippets(s)
          \/ \E d \in Domains :
               \/ CreateSite(s, d) \/ EnqueueDomainChange(s, d)
               \/ \E src \in Sites : EnqueueRestoreClone(src, s, d)
    BY DEF Handlers
  <1>2. site \in [Sites -> SiteRow] /\ job \in [JobId -> JobRow]
    BY DEF StoreInv, TypeOK
  <1>3. \A st : SetStatus(s, st) => /\ \A t \in Sites : t # s => site'[t] = site[t]
                                    /\ site'[s].domain = site[s].domain /\ site'[s].status = st
    BY <1>2 DEF SetStatus, SiteRow
  <1>4. ASSUME NEW k \in StatusKinds \ {"site.restore_clone", "site.domain_change"}, NEW allowed,
               EnqueueSiteTransition(s, k, allowed), allowed \cap (LockedStatus \cup {"absent"}) = {}
        PROVE  HostInv'
    <2>1. /\ SetStatus(s, Transit[k]) /\ InsertJob(k, s, None, None) /\ site[s].status \in allowed
          /\ UNCHANGED <<tomb, reservation, worker, inbox, journal, host>>
      BY <1>4 DEF EnqueueSiteTransition, Elsewhere, wire
    <2>2. site[s].status \notin LockedStatus \cup {"absent"} /\ k \in JobKinds
      BY <1>4, <2>1, KindFacts
    <2>3. ReservationsMove
      BY <2>1, ReservationsRest
    <2> QED BY <1>3, <1>4, <2>1, <2>2, <2>3, InsertKeepsHost
  <1>5. CASE EnqueueSiteDisable(s)
    BY <1>4, <1>5, KindFacts DEF EnqueueSiteDisable, LockedStatus
  <1>6. CASE EnqueueSiteEnable(s)
    BY <1>4, <1>6, KindFacts DEF EnqueueSiteEnable, LockedStatus
  <1>7. CASE EnqueueSiteProvisionRetry(s)
    BY <1>4, <1>7, KindFacts DEF EnqueueSiteProvisionRetry, LockedStatus
  <1>8. CASE EnqueueSiteDelete(s)
    <2>1. /\ SetStatus(s, Transit["site.delete"]) /\ InsertJob("site.delete", s, None, site[s].domain)
          /\ site[s].status \notin LockedStatus \cup {"absent"} /\ site[s].domain \in Domains \cup {None}
          /\ UNCHANGED <<tomb, reservation, worker, inbox, journal, host>>
      BY <1>2, <1>8, KindFacts DEF EnqueueSiteDelete, Elsewhere, wire, LockedStatus, SiteRow
    <2>2. ReservationsMove
      BY <2>1, ReservationsRest
    <2> QED BY <1>3, <2>1, <2>2, KindFacts, InsertKeepsHost
  <1>9. CASE RetryDomainChange(s)
    BY <1>9, RetryKeepsHost DEF RetryDomainChange, LifecycleKinds
  <1>10. CASE RetrySiteDelete(s)
    BY <1>10, RetryKeepsHost DEF RetrySiteDelete, LifecycleKinds
  <1>11. CASE EnqueueSiteBackup(s)
    <2>1. /\ InsertJob("site.backup", s, None, None)
          /\ UNCHANGED <<site, tomb, reservation, worker, inbox, journal, host>>
      BY <1>11 DEF EnqueueSiteBackup, Elsewhere, wire
    <2>2. ReservationsMove
      BY <2>1, ReservationsRest
    <2> QED BY <2>1, <2>2, KindFacts, InsertKeepsHost
  <1>12. ASSUME UNCHANGED <<store, worker, wire>> PROVE HostInv'
    <2>1. UNCHANGED <<site, tomb, reservation, job, lastJob, worker, inbox, journal, host>>
      BY <1>12 DEF store, wire
    <2>2. DomainsMove /\ StatusMoves /\ ReservationsMove /\ WorkersMove
      BY <2>1, SitesRest, ReservationsRest, WorkersRest
    <2>3. KeepsRows
      BY <2>1, Known DEF KeepsRows
    <2>4. \A j \in JobId : Cloning(j)' => Cloning(j)
      BY <2>1 DEF Cloning, Pending
    <2> QED BY <2>1, <2>2, <2>3, <2>4, OldRowsKeepHost
  <1>13. CASE ReadSnippetSite(s)
    BY <1>12, <1>13 DEF ReadSnippetSite
  <1>14. CASE SetSiteSnippets(s)
    <2>1. CASE InsertJob("site.config_apply", s, None, None)
      <3>1. UNCHANGED <<site, tomb, reservation, worker, inbox, journal, host>>
        BY <1>14 DEF SetSiteSnippets, wire
      <3>2. ReservationsMove
        BY <3>1, ReservationsRest
      <3> QED BY <2>1, <3>1, <3>2, KindFacts, InsertKeepsHost
    <2>2. CASE UNCHANGED <<job, lastJob>>
      BY <1>12, <1>14, <2>2 DEF SetSiteSnippets, store
    <2> QED BY <1>14, <2>1, <2>2 DEF SetSiteSnippets
  <1>15. ASSUME NEW d \in Domains, InsertSite(s, d)
         PROVE  /\ site[s].status = "absent" /\ s \notin tomb /\ site'[s].status = "queued"
                /\ \A t \in Sites : t # s => site'[t] = site[t]
    BY <1>2, <1>15 DEF InsertSite
  <1>16. ASSUME NEW d \in Domains, CreateSite(s, d) PROVE HostInv'
    <2>1. /\ InsertSite(s, d) /\ InsertJob("site.provision", s, None, None)
          /\ UNCHANGED <<tomb, reservation, worker, inbox, journal, host>>
      BY <1>16 DEF CreateSite, Elsewhere, wire
    <2>2. ReservationsMove
      BY <2>1, ReservationsRest
    <2> QED BY <1>15, <2>1, <2>2, KindFacts, InsertKeepsHost
  <1>17. ASSUME NEW d \in Domains, NEW src \in Sites, EnqueueRestoreClone(src, s, d) PROVE HostInv'
    <2>1. /\ InsertSite(s, d) /\ InsertJob("site.restore_clone", s, src, None)
          /\ UNCHANGED <<tomb, reservation, worker, inbox, journal, host>>
      BY <1>17 DEF EnqueueRestoreClone, Elsewhere, wire
    <2>2. ReservationsMove
      BY <2>1, ReservationsRest
    <2> QED BY <1>15, <2>1, <2>2, KindFacts, InsertKeepsHost
  <1>18. ASSUME NEW d \in Domains, EnqueueDomainChange(s, d) PROVE HostInv'
    <2>1. PICK n \in JobId : n = lastJob + 1
      BY <1>18, KindFacts, Inserted DEF EnqueueDomainChange
    <2>2. /\ site[s].status = "active" /\ SetStatus(s, "domain_changing")
          /\ InsertJob("site.domain_change", s, None, d)
          /\ reservation' = reservation \cup {[domain |-> d, site |-> s, job |-> n]}
          /\ UNCHANGED <<tomb, worker, inbox, journal, host>>
      BY <1>18, <2>1 DEF EnqueueDomainChange, Elsewhere, wire
    <2>3. host[s] = Up(site[s].domain) /\ Still(s) /\ journal[n] = "none"
      BY <2>1, <2>2, Known DEF HostInv, SettledInv, RequestsInv
    <2>4. ReservationsMove
      <3>1. ChangeTells(n, s)'
        <4>1. Up(site[s].domain).files = TRUE
          BY DEF Up
        <4>2. site'[s].domain = site[s].domain /\ host'[s] = host[s] /\ journal'[n] = "none"
          BY <1>3, <2>2, <2>3
        <4> QED BY <2>3, <4>1, <4>2 DEF ChangeTells
      <3>2. \A r \in reservation' : r \in reservation \/ (r.job = n /\ r.site = s)
        BY <2>2
      <3> QED BY <2>2, <3>1, <3>2 DEF ReservationsMove
    <2>5. /\ site[s].status \notin LockedStatus \cup {"absent"} /\ site'[s].domain = site[s].domain
          /\ site'[s].status = Transit["site.domain_change"]
          /\ \A t \in Sites : t # s => site'[t] = site[t]
      BY <1>3, <2>2, KindFacts DEF LockedStatus
    <2> QED BY <2>2, <2>3, <2>4, <2>5, KindFacts, InsertKeepsHost
  <1> QED BY <1>1, <1>5, <1>6, <1>7, <1>8, <1>9, <1>10, <1>11, <1>13, <1>14, <1>16, <1>17, <1>18
\* Steps of the worker that leave the sites alone and start nothing new.
LEMMA QuietKeepsHost ==
  ASSUME StoreInv, StoreInv', HostInv, KeepsRows, WorkersMove,
         UNCHANGED <<site, tomb, reservation, lastJob, inbox, journal, host>>,
         \A j \in 1..lastJob : job'[j].status \in {"queued", "running"} => Pending(j)
  PROVE  HostInv'
  <1>1. \A j \in JobId : Cloning(j)' => Cloning(j)
    <2> SUFFICES ASSUME NEW j \in JobId, Cloning(j)' PROVE Cloning(j)
      OBVIOUS
    <2>1. j \in 1..lastJob
      BY Known, KnownAfter, KindsAssumption, KindFacts DEF Cloning, NoJob
    <2> QED BY <2>1 DEF Cloning, Pending, KeepsRows
  <1>2. DomainsMove /\ StatusMoves /\ ReservationsMove
    BY SitesRest, ReservationsRest
  <1> QED BY <1>1, <1>2, OldRowsKeepHost

\* The rows of the table while one of them changes its status.
LEMMA OneRowMoves ==
  ASSUME StoreInv, NEW n \in JobId, NEW st, job' = [job EXCEPT ![n].status = st], UNCHANGED lastJob
  PROVE  /\ KeepsRows /\ job'[n].status = st
         /\ \A j \in JobId : j # n => job'[j] = job[j]
         /\ job'[n].kind = job[n].kind /\ job'[n].site = job[n].site
  <1>1. job \in [JobId -> JobRow]
    BY DEF StoreInv, TypeOK
  <1>2. \A j \in JobId : /\ job'[j].kind = job[j].kind /\ job'[j].site = job[j].site
                         /\ job'[j].source = job[j].source /\ job'[j].domain = job[j].domain
    BY <1>1 DEF JobRow
  <1>3. job'[n].status = st /\ \A j \in JobId : j # n => job'[j] = job[j]
    BY <1>1 DEF JobRow
  <1>4. KeepsRows
    BY <1>2, Known DEF KeepsRows
  <1> QED BY <1>2, <1>3, <1>4

\* A job that is recorded as finished: its site and its answer.
LEMMA FinishingFacts ==
  ASSUME StoreInv, HostInv, OneWorker, NEW w \in Workers, NEW kinds, Finishing(w, kinds)
  PROVE  /\ worker[w].job \in 1..lastJob /\ worker[w].job \in JobId
         /\ job[worker[w].job].status = "running" /\ job[worker[w].job].kind \in kinds
         /\ AnswerTrue(worker[w].job, worker[w].reply)
         /\ WorkersMove /\ UNCHANGED <<lastJob, inbox, journal, host>>
         /\ \A v \in Workers : worker'[v].pc = "idle"
  <1>1. worker[w].pc = "answered" /\ job[worker[w].job].kind \in kinds
    BY DEF Finishing
  <1>2. UNCHANGED <<lastJob, inbox, journal, host>>
    BY DEF Finishing, wire
  <1>3. worker[w].job \in 1..lastJob /\ worker[w].job \in JobId
    BY <1>1, Known DEF Busy
  <1>4. job[worker[w].job].status = "running" /\ AnswerTrue(worker[w].job, worker[w].reply)
    BY <1>1 DEF HostInv, RequestsInv, AnswersInv, Busy
  <1>5. \A v \in Workers : worker'[v].pc = "idle"
    BY DEF OneWorker, Finishing, Idling, StoreInv, TypeOK
  <1>6. WorkersMove
    BY <1>5 DEF WorkersMove, Busy
  <1> QED BY <1>1, <1>2, <1>3, <1>4, <1>5, <1>6

LEMMA TransitionKeepsHost ==
  ASSUME StoreInv, StoreInv', HostInv, OneWorker, NEW w \in Workers, FinishTransition(w)
  PROVE  HostInv'
  <1>1. PICK n \in 1..lastJob : n = worker[w].job
    BY FinishingFacts DEF FinishTransition
  <1>2. /\ n \in JobId /\ job[n].status = "running" /\ job[n].kind \in StatusKinds \ LifecycleKinds
        /\ AnswerTrue(n, worker[w].reply) /\ WorkersMove
        /\ UNCHANGED <<lastJob, tomb, reservation, inbox, journal, host>>
    BY <1>1, FinishingFacts DEF FinishTransition
  <1>3. PICK s \in Sites : s = job[n].site
    BY <1>1, Known
  <1>4. PICK ok \in BOOLEAN : ok = (worker[w].reply = "ok")
    OBVIOUS
  <1>5. site[s].status = Transit[job[n].kind]
    BY <1>2, <1>3, OwnStatus DEF Pending
  <1>6. site[s].status \in {"queued", "disabling", "enabling"}
    BY <1>2, <1>5, KindFacts DEF LifecycleKinds
  <1>7. Close(n, ok) /\ SetStatus(s, TransitionOutcome(job[n].kind, ok))
    BY <1>1, <1>2, <1>3, <1>4, <1>6 DEF FinishTransition
  <1>8. PICK st : st = TransitionOutcome(job[n].kind, ok)
    OBVIOUS
  <1>9. /\ st \in {"active", "failed", "disabled", "disable_failed", "enable_failed"}
        /\ st = "active" => ok = TRUE /\ job[n].kind \in Provisioning
    BY <1>2, <1>8, KindFacts DEF TransitionOutcome, LifecycleKinds, Provisioning
  <1>10. /\ \A t \in Sites : t # s => site'[t] = site[t]
         /\ site'[s].domain = site[s].domain /\ site'[s].status = st
    BY <1>7, <1>8 DEF SetStatus, StoreInv, TypeOK, SiteRow
  <1>11. PICK c \in {"succeeded", "failed"} : job' = [job EXCEPT ![n].status = c]
    BY <1>7 DEF Close
  <1>12. KeepsRows /\ job'[n].status = c /\ \A j \in JobId : j # n => job'[j] = job[j]
    BY <1>2, <1>11, OneRowMoves
  <1>13. DomainsMove
    BY <1>10 DEF DomainsMove
  <1>14. st = "active" => host[s] = Up(site[s].domain) /\ Still(s)
    BY <1>2, <1>3, <1>4, <1>9 DEF AnswerTrue
  <1>15. s \notin tomb
    BY <1>6 DEF HostInv, SettledInv, NoRow
  <1>16. StatusMoves
    <2> SUFFICES ASSUME NEW t \in Sites
                 PROVE  /\ site'[t].status = "active" =>
                             site'[t] = site[t] \/ (host[t] = Up(site'[t].domain) /\ Still(t))
                        /\ site'[t].status \in DomainLocked => site[t].status \in DomainLocked
                        /\ t \in tomb => site'[t] = site[t]
                        /\ site'[t].status = "absent" => site[t].status = "absent"
      BY <1>2 DEF StatusMoves
    <2> QED BY <1>9, <1>10, <1>14, <1>15 DEF DomainLocked
  <1>17. \A j \in JobId : Cloning(j)' => Cloning(j)
    BY <1>12 DEF Cloning, Pending
  <1>18. \A t \in Sites : site[t].status \in {"deleting", "delete_failed"} =>
            site'[t].status \in {"deleting", "delete_failed"}
    BY <1>6, <1>10
  <1>19. ReservationsMove
    BY <1>2, ReservationsRest
  <1> QED BY <1>2, <1>12, <1>13, <1>16, <1>17, <1>18, <1>19, OldRowsKeepHost

\* A domain change that is recorded as finished: its row is closed, its site
\* leaves the transit status, and it keeps its reservation unless it is settled.
ChangeDone(n, s, r) ==
    /\ n \in 1..lastJob /\ n \in JobId /\ s \in Sites /\ job[n].site = s
    /\ job[n].status = "running" /\ job[n].kind = "site.domain_change" /\ AnswerTrue(n, r)
    /\ site[s].status = "domain_changing" /\ \A j \in JobId : Cloning(j) => job[j].site # s
    /\ \E c \in {"succeeded", "failed"} : job' = [job EXCEPT ![n].status = c]
    /\ \A t \in Sites : t # s => site'[t] = site[t]
    /\ site'[s].status = IF r \in {"ok", "restored"} THEN "active" ELSE "domain_change_failed"
    /\ site'[s].domain = IF r = "ok" THEN job[n].domain ELSE site[s].domain
    /\ reservation' = IF HostSettled(r) THEN reservation \ {q \in reservation : q.site = s /\ q.job = n}
                      ELSE reservation

LEMMA ChangeFinishes ==
  ASSUME StoreInv, HostInv, OneWorker, NEW w \in Workers, FinishDomainChange(w)
  PROVE  ChangeDone(worker[w].job, job[worker[w].job].site, worker[w].reply)
  <1>1. PICK n \in 1..lastJob : n = worker[w].job
    BY FinishingFacts DEF FinishDomainChange
  <1>2. /\ n \in JobId /\ job[n].status = "running" /\ job[n].kind = "site.domain_change"
        /\ AnswerTrue(n, worker[w].reply)
    BY <1>1, FinishingFacts DEF FinishDomainChange
  <1>3. PICK s \in Sites : s = job[n].site
    BY <1>1, Known
  <1>4. PICK r : r = worker[w].reply
    OBVIOUS
  <1>5. site[s].status = "domain_changing" /\ \A j \in JobId : Cloning(j) => job[j].site # s
    BY <1>2, <1>3, OwnStatus, KindFacts DEF Pending, Cloning
  <1> DEFINE held == {q \in reservation : q.site = s /\ q.job = n}
  <1>6. \E q \in held : q.domain = job[n].domain
    <2>1. [domain |-> job[n].domain, site |-> s, job |-> n] \in reservation
      BY <1>2, <1>3 DEF StoreInv, ReservationHasItsOwner, Pending
    <2> QED BY <2>1
  <1>7. /\ Close(n, r = "ok")
        /\ reservation' = IF HostSettled(r) THEN reservation \ held ELSE reservation
        /\ site' = CASE r = "ok" -> [site EXCEPT ![s] = [status |-> "active", domain |-> job[n].domain]]
                     [] r = "restored" -> [site EXCEPT ![s].status = "active"]
                     [] OTHER -> [site EXCEPT ![s].status = "domain_change_failed"]
    BY <1>1, <1>2, <1>3, <1>4, <1>5, <1>6 DEF FinishDomainChange
  <1> HIDE DEF held
  <1>8. \E c \in {"succeeded", "failed"} : job' = [job EXCEPT ![n].status = c]
    BY <1>7 DEF Close
  <1>9. /\ \A t \in Sites : t # s => site'[t] = site[t]
        /\ site'[s].status = IF r \in {"ok", "restored"} THEN "active" ELSE "domain_change_failed"
        /\ site'[s].domain = IF r = "ok" THEN job[n].domain ELSE site[s].domain
    <2>1. site \in [Sites -> SiteRow]
      BY DEF StoreInv, TypeOK
    <2>2. CASE r = "ok"
      BY <1>7, <2>1, <2>2 DEF SiteRow
    <2>3. CASE r = "restored"
      BY <1>7, <2>1, <2>3 DEF SiteRow
    <2>4. CASE r \notin {"ok", "restored"}
      BY <1>7, <2>1, <2>4 DEF SiteRow
    <2> QED BY <2>2, <2>3, <2>4
  <1>10. reservation' = IF HostSettled(r) THEN reservation \ {q \in reservation : q.site = s /\ q.job = n}
                        ELSE reservation
    BY <1>7 DEF held
  <1>11. ChangeDone(n, s, r)
    BY <1>2, <1>3, <1>4, <1>5, <1>8, <1>9, <1>10 DEF ChangeDone
  <1> QED BY <1>1, <1>3, <1>4, <1>11

\* The row, the site and the reservation agree with the host afterwards.
LEMMA ChangeKeepsHost ==
  ASSUME StoreInv, StoreInv', HostInv, OneWorker, NEW w \in Workers, FinishDomainChange(w)
  PROVE  HostInv'
  <1>1. PICK n, s, r : ChangeDone(n, s, r)
    BY ChangeFinishes
  <1>2. /\ n \in JobId /\ s \in Sites /\ job[n].site = s /\ job[n].kind = "site.domain_change"
        /\ AnswerTrue(n, r) /\ site[s].status = "domain_changing"
        /\ \A j \in JobId : Cloning(j) => job[j].site # s
    BY <1>1 DEF ChangeDone
  <1>3. /\ WorkersMove /\ UNCHANGED <<lastJob, tomb, inbox, journal, host>>
        /\ \A v \in Workers : worker'[v].pc = "idle"
    BY FinishingFacts DEF FinishDomainChange
  <1>4. PICK c \in {"succeeded", "failed"} : job' = [job EXCEPT ![n].status = c]
    BY <1>1 DEF ChangeDone
  <1>5. KeepsRows /\ job'[n].status = c /\ \A j \in JobId : j # n => job'[j] = job[j]
    BY <1>2, <1>3, <1>4, OneRowMoves
  <1>6. \A j \in JobId : Cloning(j)' => Cloning(j)
    BY <1>4, <1>5 DEF Cloning, Pending
  <1>7. /\ \A t \in Sites : t # s => site'[t] = site[t]
        /\ site'[s].status = IF r \in {"ok", "restored"} THEN "active" ELSE "domain_change_failed"
        /\ site'[s].domain = IF r = "ok" THEN job[n].domain ELSE site[s].domain
    BY <1>1 DEF ChangeDone
  <1>8. r \in {"ok", "restored"} => host[s] = Up(site'[s].domain) /\ Still(s)
    BY <1>2, <1>7 DEF AnswerTrue
  <1>9. s \notin tomb
    BY <1>2 DEF HostInv, SettledInv, NoRow
  <1>10. StatusMoves
    <2> SUFFICES ASSUME NEW t \in Sites
                 PROVE  /\ site'[t].status = "active" =>
                             site'[t] = site[t] \/ (host[t] = Up(site'[t].domain) /\ Still(t))
                        /\ site'[t].status \in DomainLocked => site[t].status \in DomainLocked
                        /\ t \in tomb => site'[t] = site[t]
                        /\ site'[t].status = "absent" => site[t].status = "absent"
      BY <1>3 DEF StatusMoves
    <2> QED BY <1>2, <1>7, <1>8, <1>9 DEF DomainLocked
  <1>11. DomainsMove
    <2> SUFFICES ASSUME NEW t \in Sites, site'[t].domain # site[t].domain
                 PROVE  /\ Still(t) /\ t \notin tomb
                        /\ \A q \in reservation' : q.site # t
                        /\ \A j \in 1..lastJob : job[j].site = t => ~Cloning(j)'
      BY <1>3 DEF DomainsMove
    <2>1. t = s /\ r = "ok"
      BY <1>7
    <2>2. \A q \in reservation' : q.site # s
      BY <1>7, <2>1, KnownAfter DEF DomainLocked
    <2>3. \A j \in 1..lastJob : job[j].site = s => ~Cloning(j)'
      BY <1>2, <1>6, Known
    <2> QED BY <1>8, <1>9, <2>1, <2>2, <2>3
  <1>12. ReservationsMove
    <2>1. CASE r \in {"ok", "restored"}
      <3>1. reservation' = reservation \ {q \in reservation : q.site = s /\ q.job = n}
        BY <1>1, <2>1 DEF ChangeDone, HostSettled
      <3> QED BY <1>8, <2>1, <3>1 DEF ReservationsMove
    <2>2. CASE r \notin {"ok", "restored"}
      <3>1. reservation' = reservation
        BY <1>1, <2>2 DEF ChangeDone, HostSettled
      <3> QED BY <3>1, ReservationsRest
    <2> QED BY <2>1, <2>2
  <1>13. \A t \in Sites : site[t].status \in {"deleting", "delete_failed"} =>
           site'[t].status \in {"deleting", "delete_failed"}
    BY <1>2, <1>7
  <1> QED BY <1>3, <1>5, <1>6, <1>10, <1>11, <1>12, <1>13, OldRowsKeepHost

LEMMA DeleteKeepsHost ==
  ASSUME StoreInv, StoreInv', HostInv, OneWorker, NEW w \in Workers, FinishSiteDelete(w)
  PROVE  HostInv'
  <1>1. PICK n \in 1..lastJob : n = worker[w].job
    BY FinishingFacts DEF FinishSiteDelete
  <1>2. /\ n \in JobId /\ job[n].status = "running" /\ job[n].kind = "site.delete"
        /\ AnswerTrue(n, worker[w].reply) /\ WorkersMove
        /\ UNCHANGED <<lastJob, reservation, inbox, journal, host>>
        /\ \A v \in Workers : worker'[v].pc = "idle"
    BY <1>1, FinishingFacts DEF FinishSiteDelete
  <1>3. PICK s \in Sites : s = job[n].site
    BY <1>1, Known
  <1>4. PICK ok \in BOOLEAN : ok = (worker[w].reply = "ok")
    OBVIOUS
  <1>5. site[s].status = "deleting" /\ \A j \in JobId : Cloning(j) => job[j].site # s
    BY <1>2, <1>3, OwnStatus, KindFacts DEF Pending, Cloning
  <1>6. ReservationsMove
    BY <1>2, ReservationsRest
  <1>7. CASE UNCHANGED <<job, site, tomb>>
    <2>1. KeepsRows
      BY <1>2, <1>7, Known DEF KeepsRows
    <2>2. \A j \in 1..lastJob : job'[j].status \in {"queued", "running"} => Pending(j)
      BY <1>7 DEF Pending
    <2> QED BY <1>2, <1>7, <2>1, <2>2, QuietKeepsHost
  <1>8. CASE /\ Close(n, ok) /\ tomb' = IF ok THEN tomb \cup {s} ELSE tomb
             /\ site' = IF ok THEN [site EXCEPT ![s] = NoRow]
                        ELSE [site EXCEPT ![s].status = "delete_failed"]
    <2>1. PICK c \in {"succeeded", "failed"} : job' = [job EXCEPT ![n].status = c]
      BY <1>8 DEF Close
    <2>2. KeepsRows /\ job'[n].status = c /\ \A j \in JobId : j # n => job'[j] = job[j]
      BY <1>2, <2>1, OneRowMoves
    <2>3. \A j \in JobId : Cloning(j)' => Cloning(j)
      BY <2>2 DEF Cloning, Pending
    <2>4. site \in [Sites -> SiteRow]
      BY DEF StoreInv, TypeOK
    <2>5. /\ \A t \in Sites : t # s => site'[t] = site[t]
          /\ IF ok THEN site'[s] = NoRow /\ tomb' = tomb \cup {s}
             ELSE site'[s].status = "delete_failed" /\ site'[s].domain = site[s].domain /\ tomb' = tomb
      BY <1>8, <2>4 DEF SiteRow
    <2>6. ok => host[s] = Gone /\ Still(s)
      BY <1>2, <1>3, <1>4 DEF AnswerTrue, Deletes
    <2>7. s \notin tomb
      BY <1>5 DEF HostInv, SettledInv, NoRow
    <2>8. StatusMoves
      <3> SUFFICES ASSUME NEW t \in Sites
                   PROVE  /\ site'[t].status = "active" => site'[t] = site[t]
                          /\ site'[t].status \in DomainLocked => site[t].status \in DomainLocked
                          /\ t \in tomb' => t \in tomb \/ (site'[t] = NoRow /\ host[t] = Gone /\ Still(t))
                          /\ t \in tomb => t \in tomb' /\ site'[t] = site[t]
                          /\ site'[t].status = "absent" /\ t \notin tomb' => site[t].status = "absent"
        BY DEF StatusMoves
      <3>1. CASE t = s
        BY <2>5, <2>6, <2>7, <3>1 DEF DomainLocked, NoRow
      <3>2. CASE t # s
        BY <2>5, <3>2
      <3> QED BY <3>1, <3>2
    <2>9. DomainsMove
      <3> SUFFICES ASSUME NEW t \in Sites, site'[t].domain # site[t].domain
                   PROVE  /\ Still(t) /\ t \notin tomb
                          /\ \A q \in reservation' : q.site # t
                          /\ \A j \in 1..lastJob : job[j].site = t => ~Cloning(j)'
        BY <1>2 DEF DomainsMove
      <3>1. t = s /\ ok
        BY <2>5
      <3>2. \A q \in reservation' : q.site # s
        BY <2>5, <3>1, KnownAfter DEF DomainLocked, NoRow
      <3>3. \A j \in 1..lastJob : job[j].site = s => ~Cloning(j)'
        BY <1>5, <2>3, Known
      <3> QED BY <2>6, <2>7, <3>1, <3>2, <3>3
    <2>10. \A t \in Sites : site[t].status \in {"deleting", "delete_failed"} =>
              t \in tomb' \/ site'[t].status \in {"deleting", "delete_failed"}
      BY <2>5
    <2> QED BY <1>2, <1>6, <2>2, <2>3, <2>8, <2>9, <2>10, OldRowsKeepHost
  <1>9. UNCHANGED <<job, site, tomb>>
        \/ (/\ Close(n, ok) /\ tomb' = IF ok THEN tomb \cup {s} ELSE tomb
            /\ site' = IF ok THEN [site EXCEPT ![s] = NoRow]
                       ELSE [site EXCEPT ![s].status = "delete_failed"])
    BY <1>1, <1>3, <1>4, <1>5 DEF FinishSiteDelete
  <1> QED BY <1>7, <1>8, <1>9
\* A request that is sent is the newest one; its site waits for it alone.
LEMMA CallKeepsHost ==
  ASSUME StoreInv, StoreInv', HostInv, OneWorker, NEW w \in Workers, CallBroker(w)
  PROVE  HostInv'
  <1>1. PICK n \in 1..lastJob : n = worker[w].job
    BY Known DEF CallBroker, Busy
  <1>2. n \in JobId /\ job[n].status = "running" /\ job[n].site \in Sites
    BY <1>1, Known DEF CallBroker, HostInv, RequestsInv, Busy
  <1>3. PICK q : q = [job |-> n, domain |-> site[job[n].site].domain, caller |-> w, waits |-> FALSE]
    OBVIOUS
  <1>4. /\ inbox' = Append(inbox, q) /\ worker[w].pc = "claimed"
        /\ worker' = [worker EXCEPT ![w].pc = "calling"]
        /\ UNCHANGED <<store, journal, host>>
    BY <1>1, <1>3 DEF CallBroker
  <1>5. UNCHANGED <<site, tomb, reservation, job, lastJob, journal, host>>
    BY <1>4 DEF store
  <1>6. /\ DOMAIN inbox' = 1..(Len(inbox) + 1) /\ Len(inbox') = Len(inbox) + 1
        /\ inbox'[Len(inbox) + 1] = q
        /\ \A i \in DOMAIN inbox : inbox'[i] = inbox[i]
    BY <1>4, Known
  <1>7. PICK m \in Nat : m = Len(inbox) + 1
    BY Known
  <1>8. /\ DOMAIN inbox' = DOMAIN inbox \cup {m} /\ Len(inbox') = m /\ inbox'[m] = q
        /\ \A i \in DOMAIN inbox : i \in Nat /\ i < m /\ inbox'[i] = inbox[i]
    BY <1>6, <1>7, Known
  <1>9. q.job = n /\ q.caller = w /\ q.waits = FALSE /\ q.domain = site[job[n].site].domain
    BY <1>3
  <1>10. \A x \in Workers : worker'[x].pc = "calling" /\ worker'[x].job = n
    BY <1>1, <1>4 DEF OneWorker, StoreInv, TypeOK, Worker
  <1>11. \A i \in DOMAIN inbox : inbox[i].caller = None
    <2>1. ASSUME NEW i \in DOMAIN inbox, inbox[i].caller # None PROVE FALSE
      <3>1. inbox[i].caller \in Workers
        BY <2>1, Known DEF Sent, Request
      <3>2. worker[inbox[i].caller].pc = "calling"
        BY <2>1 DEF StoreInv, CallersWait
      <3> QED BY <1>4, <3>1, <3>2 DEF OneWorker
    <2> QED BY <2>1
  <1>12. ASSUME NEW s \in Sites, Acts(q, s)
         PROVE  /\ job[n].site = s /\ job[n].kind \in StatusKinds
                /\ site[s].status = Transit[job[n].kind]
                /\ site[s].status \notin {"active", "absent"} /\ s \notin tomb
                /\ site[s].status \in DomainLocked => job[n].kind = "site.domain_change"
                /\ site[s].status \in {"deleting", "delete_failed"} => Deletes(n)
    <2>1. job[n].site = s /\ job[n].kind \in StatusKinds
      BY <1>9, <1>12 DEF Acts
    <2>2. site[s].status = Transit[job[n].kind]
      BY <1>2, <2>1, OwnStatus DEF Pending
    <2>3. /\ site[s].status \notin {"active", "absent"}
          /\ site[s].status \in DomainLocked => job[n].kind = "site.domain_change"
          /\ site[s].status \in {"deleting", "delete_failed"} => Deletes(n)
      BY <2>1, <2>2, KindFacts DEF DomainLocked, Deletes
    <2>4. s \notin tomb
      BY <2>3 DEF HostInv, SettledInv, NoRow
    <2> QED BY <2>1, <2>2, <2>3, <2>4
  <1>13. \A x, s : Acts(x, s)' <=> Acts(x, s)
    BY <1>5 DEF Acts
  <1>14. ASSUME NEW s \in Sites, Still(s), ~Acts(q, s) PROVE Still(s)'
    BY <1>8, <1>13, <1>14 DEF Still
  <1>15. RequestsInv'
    <2>1. \A i \in DOMAIN inbox' : inbox'[i].caller # None => i = Len(inbox')
      BY <1>8, <1>11
    <2>2. \A i \in DOMAIN inbox' : inbox'[i].waits = TRUE => job'[inbox'[i].job].kind = "site.restore_clone"
      BY <1>5, <1>8, <1>9 DEF HostInv, RequestsInv
    <2>3. ASSUME NEW i \in DOMAIN inbox', NEW s \in Sites, Acts(inbox[i], s)'
          PROVE  inbox'[i].domain = site'[s].domain
      <3>1. CASE i = m
        <4>1. Acts(q, s)
          BY <1>5, <1>8, <2>3, <3>1 DEF Acts
        <4> QED BY <1>5, <1>8, <1>9, <1>12, <3>1, <4>1
      <3>2. CASE i \in DOMAIN inbox
        BY <1>5, <1>8, <1>13, <2>3, <3>2 DEF HostInv, RequestsInv, Acts
      <3> QED BY <1>8, <3>1, <3>2
    <2>4. \A x \in Workers : worker'[x].pc \in Busy => job'[worker'[x].job].status = "running"
      BY <1>2, <1>5, <1>10
    <2> QED BY <1>5, <2>1, <2>2, <2>3, <2>4 DEF HostInv, RequestsInv
  <1>16. SettledInv'
    <2>1. \A s \in Sites : site[s].status = "active" => Still(s)'
      BY <1>12, <1>14 DEF HostInv, SettledInv
    <2>2. \A s \in tomb : s \in Sites /\ Still(s)'
      BY <1>12, <1>14 DEF HostInv, SettledInv, StoreInv, TypeOK
    <2> QED BY <1>5, <2>1, <2>2 DEF HostInv, SettledInv
  <1>17. ChangesInv'
    <2>1. ASSUME NEW i \in DOMAIN inbox', NEW s \in Sites, Acts(inbox[i], s)'
          PROVE  /\ job[inbox'[i].job].kind = "site.domain_change" => \E r \in reservation : r.job = inbox'[i].job
                 /\ site[s].status \in DomainLocked => job[inbox'[i].job].kind = "site.domain_change"
      <3>1. CASE i = m
        <4>1. Acts(q, s)
          BY <1>5, <1>8, <2>1, <3>1 DEF Acts
        <4>2. job[n].kind = "site.domain_change" =>
                [domain |-> job[n].domain, site |-> job[n].site, job |-> n] \in reservation
          BY <1>2 DEF StoreInv, ReservationHasItsOwner, Pending
        <4>3. job[n].kind = "site.domain_change" => \E r \in reservation : r.job = n
          BY <4>2
        <4> QED BY <1>8, <1>9, <1>12, <3>1, <4>1, <4>3
      <3>2. CASE i \in DOMAIN inbox
        <4>1. Acts(inbox[i], s)
          BY <1>5, <1>8, <2>1, <3>2 DEF Acts
        <4> QED BY <1>8, <3>2, <4>1 DEF HostInv, ChangesInv
      <3> QED BY <1>8, <3>1, <3>2
    <2>2. \A j, s : ChangeTells(j, s)' <=> ChangeTells(j, s)
      BY <1>5 DEF ChangeTells
    <2> QED BY <1>5, <2>1, <2>2 DEF HostInv, ChangesInv
  <1>18. DeletesInv'
    <2>1. ASSUME NEW j \in JobId, Deletes(j), Acts(q, job[j].site) PROVE n = j
      <3>1. job[j].site \in Sites
        BY <2>1, Known, KindsAssumption, KindFacts DEF NoJob, Deletes
      <3>2. Deletes(n)
        BY <1>12, <2>1, <3>1 DEF HostInv, DeletesInv
      <3> QED BY <1>2, <1>12, <2>1, <3>1, <3>2 DEF HostInv, DeletesInv
    <2>2. ASSUME NEW j \in JobId, NEW i \in DOMAIN inbox', Deletes(j), journal[j] # "none",
                 Acts(inbox[i], job[j].site)'
          PROVE  inbox'[i].job = j
      <3>1. CASE i = m
        <4>1. Acts(q, job[j].site)
          BY <1>5, <1>8, <2>2, <3>1 DEF Acts
        <4> QED BY <1>8, <1>9, <2>1, <2>2, <3>1, <4>1
      <3>2. CASE i \in DOMAIN inbox
        <4>1. Acts(inbox[i], job[j].site)
          BY <1>5, <1>8, <2>2, <3>2 DEF Acts
        <4> QED BY <1>8, <2>2, <3>2, <4>1 DEF HostInv, DeletesInv
      <3> QED BY <1>8, <3>1, <3>2
    <2>3. ASSUME NEW i \in DOMAIN inbox', NEW k \in DOMAIN inbox', NEW s \in Sites,
                 i < k, Acts(inbox[i], s)', Acts(inbox[k], s)', Deletes(inbox'[i].job)
          PROVE  inbox'[k].job = inbox'[i].job
      <3>1. i \in DOMAIN inbox
        BY <1>7, <1>8, <2>3
      <3>2. Acts(inbox[i], s) /\ inbox'[i] = inbox[i] /\ inbox[i].job \in JobId
        BY <1>5, <1>8, <2>3, <3>1, Known DEF Acts
      <3>3. CASE k = m
        <4>1. Acts(q, s) /\ job[inbox[i].job].site = s
          BY <1>5, <1>8, <2>3, <3>2, <3>3 DEF Acts
        <4> QED BY <1>8, <1>9, <2>1, <2>3, <3>2, <3>3, <4>1
      <3>4. CASE k \in DOMAIN inbox
        <4>1. Acts(inbox[k], s) /\ inbox'[k] = inbox[k]
          BY <1>5, <1>8, <2>3, <3>4 DEF Acts
        <4> QED BY <2>3, <3>1, <3>2, <3>4, <4>1 DEF HostInv, DeletesInv
      <3> QED BY <1>8, <3>3, <3>4
    <2>4. \A j : Deletes(j)' <=> Deletes(j)
      BY <1>5 DEF Deletes
    <2> QED BY <1>5, <2>2, <2>3, <2>4 DEF HostInv, DeletesInv
  <1>19. ClonesInv'
    <2>1. \A j : Cloning(j)' <=> Cloning(j)
      BY <1>5 DEF Cloning, Pending
    <2>2. \A i \in DOMAIN inbox' : Cloning(inbox'[i].job) /\ inbox'[i].waits = TRUE =>
             host[job[inbox'[i].job].site] = Up(site[job[inbox'[i].job].site].domain)
      BY <1>8, <1>9 DEF HostInv, ClonesInv
    <2> QED BY <1>5, <2>1, <2>2 DEF HostInv, ClonesInv
  <1>20. AnswersInv'
    BY <1>10 DEF AnswersInv
  <1> QED BY <1>15, <1>16, <1>17, <1>18, <1>19, <1>20 DEF HostInv

\* What the worker does.
LEMMA WorkerKeepsHost ==
  ASSUME StoreInv, StoreInv', HostInv, OneWorker, NEW w \in Workers, WorkerStep(w)
  PROVE  HostInv'
  <1>1. /\ worker \in [Workers -> Worker] /\ job \in [JobId -> JobRow] /\ worker[w] \in Worker
        /\ 1..lastJob \subseteq JobId
    BY Known DEF StoreInv, TypeOK
  <1>2. worker[w].pc \in Busy =>
          /\ worker[w].job \in 1..lastJob /\ job[worker[w].job].status = "running"
    BY Known DEF HostInv, RequestsInv
  <1>3. CASE StartWorker(w)
    <2>1. \A x \in Workers : worker'[x].pc = "idle"
      BY <1>1, <1>3 DEF StartWorker, OneWorker, Idling
    <2>2. WorkersMove
      BY <2>1 DEF WorkersMove, Busy
    <2>3. UNCHANGED <<site, tomb, reservation, lastJob, inbox, journal, host>>
      BY <1>3 DEF StartWorker, wire
    <2>4. \A j \in JobId : job'[j] = IF job[j].status = "running" THEN [job[j] EXCEPT !.status = "queued"]
                                     ELSE job[j]
      BY <1>3 DEF StartWorker
    <2>5. KeepsRows /\ \A j \in 1..lastJob : job'[j].status \in {"queued", "running"} => Pending(j)
      <3>1. \A j \in JobId : /\ job'[j].kind = job[j].kind /\ job'[j].site = job[j].site
                             /\ job'[j].source = job[j].source /\ job'[j].domain = job[j].domain
                             /\ job'[j].status \in {"queued", "running"} => Pending(j)
        BY <1>1, <2>4 DEF JobRow, Pending
      <3> QED BY <1>1, <2>3, <3>1, Known DEF KeepsRows
    <2> QED BY <2>2, <2>3, <2>5, QuietKeepsHost
  <1>4. ASSUME UNCHANGED job PROVE \A j \in 1..lastJob : job'[j].status \in {"queued", "running"} => Pending(j)
    BY <1>4 DEF Pending
  <1>5. ASSUME UNCHANGED <<job, lastJob>> PROVE KeepsRows
    BY <1>5, Known DEF KeepsRows
  <1>6. CASE SelectJob(w)
    <2>1. UNCHANGED <<site, tomb, reservation, job, lastJob, inbox, journal, host>>
      BY <1>6 DEF SelectJob, wire, store
    <2>2. \A x \in Workers : worker'[x].pc = "selected"
      BY <1>1, <1>6 DEF SelectJob, OneWorker, Worker
    <2>3. WorkersMove
      BY <2>2 DEF WorkersMove, Busy
    <2> QED BY <1>4, <1>5, <2>1, <2>3, QuietKeepsHost
  <1>7. CASE ClaimJob(w)
    <2>1. UNCHANGED <<site, tomb, reservation, lastJob, inbox, journal, host>> /\ worker[w].pc = "selected"
      BY <1>7 DEF ClaimJob, wire
    <2>2. PICK n \in 1..lastJob : n = worker[w].job
      BY <2>1 DEF StoreInv, WorkHasItsRow
    <2>3. CASE job[n].status = "queued"
      <3>1. job' = [job EXCEPT ![n].status = "running"] /\ worker' = [worker EXCEPT ![w].pc = "claimed"]
        BY <1>7, <2>2, <2>3 DEF ClaimJob
      <3>2. KeepsRows /\ job'[n].status = "running" /\ \A j \in JobId : j # n => job'[j] = job[j]
        BY <1>1, <2>1, <2>2, <3>1, OneRowMoves
      <3>3. \A x \in Workers : worker'[x].pc = "claimed" /\ worker'[x].job = n
        BY <1>1, <2>2, <3>1 DEF OneWorker, Worker
      <3>4. WorkersMove
        BY <3>2, <3>3 DEF WorkersMove
      <3>5. \A j \in 1..lastJob : job'[j].status \in {"queued", "running"} => Pending(j)
        BY <1>1, <2>3, <3>2 DEF Pending
      <3> QED BY <2>1, <3>2, <3>4, <3>5, QuietKeepsHost
    <2>4. CASE job[n].status # "queued"
      <3>1. UNCHANGED job /\ worker' = [worker EXCEPT ![w] = Idling]
        BY <1>7, <2>2, <2>4 DEF ClaimJob
      <3>2. \A x \in Workers : worker'[x].pc = "idle"
        BY <1>1, <3>1 DEF OneWorker, Idling
      <3>3. WorkersMove
        BY <3>2 DEF WorkersMove, Busy
      <3> QED BY <1>4, <1>5, <2>1, <3>1, <3>3, QuietKeepsHost
    <2> QED BY <2>3, <2>4
  <1>8. CASE RefuseCall(w)
    <2>1. UNCHANGED <<site, tomb, reservation, job, lastJob, inbox, journal, host>> /\ worker[w].pc = "claimed"
      BY <1>8 DEF RefuseCall, wire, store
    <2>2. worker' = [worker EXCEPT ![w] = [@ EXCEPT !.pc = "answered", !.reply = "refused"]]
      BY <1>8 DEF RefuseCall, Answer
    <2>3. \A x \in Workers : worker'[x].job = worker[w].job /\ worker'[x].reply = "refused"
      BY <1>1, <2>2 DEF OneWorker, Worker
    <2>4. WorkersMove
      BY <1>2, <2>1, <2>3 DEF WorkersMove, Busy
    <2> QED BY <1>4, <1>5, <2>1, <2>4, QuietKeepsHost
  <1>9. CASE RetryJob(w)
    <2>1. UNCHANGED <<site, tomb, reservation, lastJob, inbox, journal, host>> /\ worker[w].pc = "answered"
      BY <1>9 DEF RetryJob, wire
    <2>2. PICK n \in 1..lastJob : n = worker[w].job
      BY <1>2, <2>1 DEF Busy
    <2>3. job' = [job EXCEPT ![n].status = "queued"] /\ worker' = [worker EXCEPT ![w] = Idling]
          /\ job[n].status = "running"
      BY <1>2, <1>9, <2>1, <2>2 DEF RetryJob, Busy
    <2>4. KeepsRows /\ \A j \in JobId : j # n => job'[j] = job[j]
      BY <1>1, <2>1, <2>2, <2>3, OneRowMoves
    <2>5. \A x \in Workers : worker'[x].pc = "idle"
      BY <1>1, <2>3 DEF OneWorker, Idling
    <2>6. WorkersMove
      BY <2>5 DEF WorkersMove, Busy
    <2>7. \A j \in 1..lastJob : job'[j].status \in {"queued", "running"} => Pending(j)
      BY <1>1, <2>3, <2>4 DEF Pending
    <2> QED BY <2>1, <2>4, <2>6, <2>7, QuietKeepsHost
  <1>10. CASE FinishOrdinary(w)
    <2>1. /\ UNCHANGED <<site, tomb, reservation>> /\ WorkersMove
          /\ UNCHANGED <<lastJob, inbox, journal, host>>
      BY <1>10, FinishingFacts DEF FinishOrdinary
    <2>2. PICK n \in 1..lastJob : n = worker[w].job
      BY <1>10, FinishingFacts DEF FinishOrdinary
    <2>3. Close(n, worker[w].reply = "ok")
      BY <1>10, <2>2, FinishingFacts DEF FinishOrdinary
    <2>4. PICK c \in {"succeeded", "failed"} : job' = [job EXCEPT ![n].status = c]
      BY <2>3 DEF Close
    <2>5. KeepsRows /\ job'[n].status = c /\ \A j \in JobId : j # n => job'[j] = job[j]
      BY <1>1, <2>1, <2>2, <2>4, OneRowMoves
    <2>6. \A j \in 1..lastJob : job'[j].status \in {"queued", "running"} => Pending(j)
      BY <1>1, <2>5 DEF Pending
    <2> QED BY <2>1, <2>5, <2>6, QuietKeepsHost
  <1> QED BY <1>3, <1>6, <1>7, <1>8, <1>9, <1>10, CallKeepsHost, TransitionKeepsHost, ChangeKeepsHost,
             DeleteKeepsHost DEF WorkerStep
\* The requests that are left were there before, in the same order, and none of
\* them does more than it would have done.
SameWork(x, q) == /\ x.job = q.job /\ x.domain = q.domain
                  /\ x.waits \in BOOLEAN /\ q.waits \in BOOLEAN
                  /\ x.waits = FALSE => q.waits = FALSE

Fewer ==
    /\ \A i \in DOMAIN inbox' : \E k \in DOMAIN inbox : SameWork(inbox'[i], inbox[k])
    /\ \A i, l \in DOMAIN inbox' : i < l =>
         \E k, m \in DOMAIN inbox : k < m /\ SameWork(inbox'[i], inbox[k]) /\ SameWork(inbox'[l], inbox[m])

LEMMA StillStill ==
  ASSUME Fewer, UNCHANGED job
  PROVE  \A s : Still(s) => Still(s)'
  <1> SUFFICES ASSUME NEW s, Still(s) PROVE Still(s)'
    OBVIOUS
  <1>1. ASSUME NEW i \in DOMAIN inbox', Acts(inbox'[i], s) PROVE FALSE
    <2>1. PICK k \in DOMAIN inbox : SameWork(inbox'[i], inbox[k])
      BY <1>1 DEF Fewer
    <2>2. Acts(inbox[k], s)
      BY <1>1, <2>1 DEF Acts, SameWork
    <2> QED BY <2>2 DEF Still
  <1> QED BY <1>1 DEF Still, Acts

\* Steps that leave the tables alone, and what they have to show of the host.
HostMoves ==
    \A s \in Sites : host'[s] = host[s] \/ ~Still(s)

DeletesMove ==
    \A j \in JobId : Deletes(j) =>
      /\ journal'[j] \in {"none", "removing", "done"}
      /\ journal'[j] = "done" => host'[job[j].site] = Gone
      /\ journal'[j] # "none" =>
           \A i \in DOMAIN inbox' : Acts(inbox'[i], job[j].site) => inbox'[i].job = j

ClonesMove ==
    /\ \A j \in JobId : Cloning(j) /\ journal'[j] = "done" =>
         host'[job[j].site] = Up(site[job[j].site].domain)
    /\ \A i \in DOMAIN inbox' : Cloning(inbox'[i].job) /\ inbox'[i].waits = TRUE =>
         host'[job[inbox'[i].job].site] = Up(site[job[inbox'[i].job].site].domain)

RequestsMove ==
    /\ \A i \in DOMAIN inbox' : inbox'[i].caller # None => i = Len(inbox')
    /\ \A i \in DOMAIN inbox' : inbox'[i].waits = TRUE => job[inbox'[i].job].kind = "site.restore_clone"
    /\ \A j \in JobId : lastJob < j => journal'[j] = "none"
    /\ \A w \in Workers : worker'[w].pc \in Busy => job[worker'[w].job].status = "running"

LEMMA RequestsKeepHost ==
  ASSUME StoreInv, HostInv, UNCHANGED <<site, tomb, reservation, job, lastJob>>, Fewer,
         RequestsMove, HostMoves, DeletesMove, ClonesMove, AnswersInv',
         \A r \in reservation : ChangeTells(r.job, r.site)'
  PROVE  HostInv'
  <1>1. \A x, s : Acts(x, s)' <=> Acts(x, s)
    BY DEF Acts
  <1>2. ASSUME NEW x, NEW q, NEW s, SameWork(x, q), Acts(x, s) PROVE Acts(q, s)
    BY <1>2 DEF Acts, SameWork
  <1>3. \A s : Still(s) => Still(s)'
    BY StillStill
  <1>4. RequestsInv'
    <2>1. ASSUME NEW i \in DOMAIN inbox', NEW s \in Sites, Acts(inbox'[i], s)
          PROVE  inbox'[i].domain = site[s].domain
      <3>1. PICK k \in DOMAIN inbox : SameWork(inbox'[i], inbox[k])
        BY <2>1 DEF Fewer
      <3>2. Acts(inbox[k], s)
        BY <1>2, <2>1, <3>1
      <3> QED BY <3>1, <3>2 DEF HostInv, RequestsInv, SameWork
    <2>2. \A i \in DOMAIN inbox', s \in Sites : Acts(inbox[i], s)' => inbox'[i].domain = site'[s].domain
      BY <2>1 DEF Acts
    <2> QED BY <2>2 DEF RequestsInv, RequestsMove
  <1>5. SettledInv'
    <2>1. \A s \in tomb : s \in Sites
      BY DEF StoreInv, TypeOK
    <2> QED BY <1>3, <2>1 DEF HostInv, SettledInv, HostMoves
  <1>6. ChangesInv'
    <2>1. ASSUME NEW i \in DOMAIN inbox', NEW s \in Sites, Acts(inbox'[i], s)
          PROVE  /\ job[inbox'[i].job].kind = "site.domain_change" => \E r \in reservation : r.job = inbox'[i].job
                 /\ site[s].status \in DomainLocked => job[inbox'[i].job].kind = "site.domain_change"
      <3>1. PICK k \in DOMAIN inbox : SameWork(inbox'[i], inbox[k])
        BY <2>1 DEF Fewer
      <3>2. Acts(inbox[k], s)
        BY <1>2, <2>1, <3>1
      <3> QED BY <3>1, <3>2 DEF HostInv, ChangesInv, SameWork
    <2>2. \A i \in DOMAIN inbox', s \in Sites : Acts(inbox[i], s)' => Acts(inbox'[i], s)
      BY DEF Acts
    <2> QED BY <2>1, <2>2 DEF ChangesInv
  <1>7. DeletesInv'
    <2>1. \A j : Deletes(j)' <=> Deletes(j)
      BY DEF Deletes
    <2>2. \A i \in DOMAIN inbox' : \A s : Acts(inbox[i], s)' => Acts(inbox'[i], s)
      BY DEF Acts
    <2>3. ASSUME NEW i \in DOMAIN inbox', NEW l \in DOMAIN inbox', NEW s \in Sites,
                 i < l, Acts(inbox'[i], s), Acts(inbox'[l], s), Deletes(inbox'[i].job)
          PROVE  inbox'[l].job = inbox'[i].job
      <3>1. PICK k \in DOMAIN inbox, m \in DOMAIN inbox :
              k < m /\ SameWork(inbox'[i], inbox[k]) /\ SameWork(inbox'[l], inbox[m])
        BY <2>3 DEF Fewer
      <3>2. Acts(inbox[k], s) /\ Acts(inbox[m], s)
        BY <1>2, <2>3, <3>1
      <3>3. Deletes(inbox[k].job)
        BY <2>3, <3>1 DEF SameWork
      <3>4. inbox[m].job = inbox[k].job
        BY <3>1, <3>2, <3>3 DEF HostInv, DeletesInv
      <3> QED BY <3>1, <3>4 DEF SameWork
    <2>4. \A j \in JobId : Deletes(j) =>
            job[j].site \in tomb \/ site[job[j].site].status \in {"deleting", "delete_failed"}
      BY DEF HostInv, DeletesInv
    <2>5. \A i, j \in JobId : Deletes(i) /\ Deletes(j) /\ job[i].site = job[j].site => i = j
      BY DEF HostInv, DeletesInv
    <2>6. \A j \in JobId : Deletes(j) => /\ journal'[j] \in {"none", "removing", "done"}
                                         /\ journal'[j] = "done" => host'[job[j].site] = Gone
      BY DEF DeletesMove
    <2>7. \A j \in JobId, i \in DOMAIN inbox' : Deletes(j) /\ journal'[j] # "none" =>
             (Acts(inbox'[i], job[j].site) => inbox'[i].job = j)
      BY DEF DeletesMove
    <2>8. \A i, k \in DOMAIN inbox', s \in Sites :
            i < k /\ Acts(inbox[i], s)' /\ Acts(inbox[k], s)' /\ Deletes(inbox[i].job)'
              => inbox'[k].job = inbox'[i].job
      BY <2>2, <2>3, <2>1 DEF Deletes
    <2> QED BY <2>1, <2>2, <2>4, <2>5, <2>6, <2>7, <2>8 DEF DeletesInv
  <1>8. ClonesInv'
    <2>1. \A j : Cloning(j)' <=> Cloning(j)
      BY DEF Cloning, Pending
    <2>2. \A i \in DOMAIN inbox' : Cloning(inbox[i].job)' => Cloning(inbox'[i].job)
      BY DEF Cloning, Pending
    <2> QED BY <2>1, <2>2 DEF HostInv, ClonesInv, ClonesMove
  <1> QED BY <1>4, <1>5, <1>6, <1>7, <1>8 DEF HostInv

\* Steps that do nothing to the host: requests that are abandoned or lost.
LEMMA LostKeepsHost ==
  ASSUME StoreInv, HostInv, UNCHANGED <<site, tomb, reservation, job, lastJob, journal, host>>, Fewer,
         \A i \in DOMAIN inbox' : inbox'[i].caller # None => i = Len(inbox'),
         \A i \in DOMAIN inbox' : inbox'[i].waits = TRUE =>
           \E k \in DOMAIN inbox : inbox[k].job = inbox'[i].job /\ inbox[k].waits = TRUE,
         WorkersMove
  PROVE  HostInv'
  <1>1. RequestsMove
    BY DEF RequestsMove, HostInv, RequestsInv, WorkersMove
  <1>2. HostMoves
    BY DEF HostMoves
  <1>3. DeletesMove
    <2>1. ASSUME NEW j \in JobId, Deletes(j), journal[j] # "none", NEW i \in DOMAIN inbox',
                 Acts(inbox'[i], job[j].site)
          PROVE  inbox'[i].job = j
      <3>1. PICK k \in DOMAIN inbox : SameWork(inbox'[i], inbox[k])
        BY <2>1 DEF Fewer
      <3>2. Acts(inbox[k], job[j].site)
        BY <2>1, <3>1 DEF SameWork, Acts
      <3>3. inbox[k].job = j
        BY <2>1, <3>2 DEF HostInv, DeletesInv
      <3> QED BY <3>1, <3>3 DEF SameWork
    <2>2. \A j \in JobId : Deletes(j) =>
            journal[j] \in {"none", "removing", "done"} /\ (journal[j] = "done" => host[job[j].site] = Gone)
      BY DEF HostInv, DeletesInv
    <2> QED BY <2>1, <2>2 DEF DeletesMove
  <1>4. ClonesMove
    <2>1. \A j \in JobId : Cloning(j) /\ journal[j] = "done" =>
            host[job[j].site] = Up(site[job[j].site].domain)
      BY DEF HostInv, ClonesInv
    <2>2. ASSUME NEW i \in DOMAIN inbox', Cloning(inbox'[i].job), inbox'[i].waits = TRUE
          PROVE  host[job[inbox'[i].job].site] = Up(site[job[inbox'[i].job].site].domain)
      <3>1. PICK k \in DOMAIN inbox : inbox[k].job = inbox'[i].job /\ inbox[k].waits = TRUE
        BY <2>2
      <3>2. Cloning(inbox[k].job)
        BY <2>2, <3>1
      <3>3. host[job[inbox[k].job].site] = Up(site[job[inbox[k].job].site].domain)
        BY <3>1, <3>2 DEF HostInv, ClonesInv
      <3> QED BY <3>1, <3>3
    <2> QED BY <2>1, <2>2 DEF ClonesMove
  <1>5. AnswersInv'
    <2> SUFFICES ASSUME NEW w \in Workers, worker'[w].pc = "answered"
                 PROVE  AnswerTrue(worker[w].job, worker[w].reply)'
      BY DEF AnswersInv
    <2>1. \A s : Still(s) => Still(s)'
      BY StillStill
    <2>2. CASE worker'[w].reply \notin {"ok", "restored"}
      BY <2>2 DEF AnswerTrue
    <2>3. CASE worker'[w] = worker[w]
      <3>1. AnswerTrue(worker[w].job, worker[w].reply)
        BY <2>3 DEF HostInv, AnswersInv
      <3> QED BY <2>1, <2>3, <3>1 DEF AnswerTrue, Deletes
    <2> QED BY <2>2, <2>3 DEF WorkersMove
  <1>6. \A r \in reservation : ChangeTells(r.job, r.site)'
    BY DEF HostInv, ChangesInv, ChangeTells
  <1> QED BY <1>1, <1>2, <1>3, <1>4, <1>5, <1>6, RequestsKeepHost

LEMMA AbandonedStands ==
  ASSUME StoreInv, NEW w \in Workers, inbox' = Abandoned({w})
  PROVE  /\ Fewer /\ Len(inbox') = Len(inbox) /\ DOMAIN inbox' = DOMAIN inbox
         /\ \A i \in DOMAIN inbox : /\ inbox'[i].job = inbox[i].job /\ inbox'[i].domain = inbox[i].domain
                                    /\ inbox'[i].waits = inbox[i].waits
                                    /\ inbox'[i].caller \in {inbox[i].caller, None}
  <1>1. inbox \in Seq(Sent)
    BY Known
  <1>2. Len(inbox') = Len(inbox) /\ inbox' \in Seq(Sent)
    BY <1>1, AbandonedIsSent
  <1>3. DOMAIN inbox' = DOMAIN inbox
    BY <1>1, <1>2
  <1>4. \A i \in DOMAIN inbox : inbox[i] \in Request
    BY <1>1 DEF Sent
  <1>5. \A i \in DOMAIN inbox : inbox'[i] = IF inbox[i].caller \in {w} THEN [inbox[i] EXCEPT !.caller = None]
                                            ELSE inbox[i]
    BY DEF Abandoned
  <1>6. \A i \in DOMAIN inbox : /\ inbox'[i].job = inbox[i].job /\ inbox'[i].domain = inbox[i].domain
                                /\ inbox'[i].waits = inbox[i].waits /\ inbox[i].waits \in BOOLEAN
                                /\ inbox'[i].caller \in {inbox[i].caller, None}
    BY <1>4, <1>5 DEF Request
  <1>7. \A i \in DOMAIN inbox : SameWork(inbox'[i], inbox[i])
    BY <1>6 DEF SameWork
  <1>8. Fewer
    BY <1>3, <1>7 DEF Fewer
  <1> QED BY <1>2, <1>3, <1>6, <1>8

\* Stops and lost connections.
LEMMA FaultsKeepHost ==
  ASSUME StoreInv, StoreInv', HostInv, OneWorker, Faults
  PROVE  HostInv'
  <1>1. worker \in [Workers -> Worker] /\ job \in [JobId -> JobRow]
    BY DEF StoreInv, TypeOK
  <1>2. \A i \in DOMAIN inbox : inbox[i].waits \in BOOLEAN
    BY Known DEF Sent, Request
  <1>3. \A w \in Workers : worker[w].pc \in Busy =>
          worker[w].job \in 1..lastJob /\ job[worker[w].job].status = "running"
    BY Known DEF HostInv, RequestsInv
  <1>4. CASE StopBroker
    <2>1. inbox' = <<>> /\ UNCHANGED <<site, tomb, reservation, job, lastJob, journal, host>>
      BY <1>4 DEF StopBroker, store
    <2>2. DOMAIN inbox' = {}
      <3>1. DOMAIN <<>> = {}
        OBVIOUS
      <3> QED BY <2>1, <3>1
    <2>3. Fewer
      BY <2>2 DEF Fewer
    <2>4. \A w \in Workers :
            worker'[w] = IF worker[w].pc = "calling"
                         THEN [worker[w] EXCEPT !.pc = "answered", !.reply = "unknown"] ELSE worker[w]
      BY <1>4 DEF StopBroker
    <2>5. \A w \in Workers : IF worker[w].pc = "calling"
                             THEN worker'[w].job = worker[w].job /\ worker'[w].reply = "unknown"
                             ELSE worker'[w] = worker[w]
      BY <1>1, <2>4 DEF Worker
    <2>6. WorkersMove
      BY <1>3, <2>1, <2>5 DEF WorkersMove, Busy
    <2> QED BY <2>1, <2>2, <2>3, <2>6, LostKeepsHost
  <1>5. ASSUME NEW w \in Workers, StopWorker(w) PROVE HostInv'
    <2>1. /\ worker' = [worker EXCEPT ![w] = Down] /\ inbox' = Abandoned({w})
          /\ UNCHANGED <<site, tomb, reservation, job, lastJob, journal, host>>
      BY <1>5 DEF StopWorker, store
    <2>2. \A x \in Workers : worker'[x].pc = "down"
      BY <1>1, <2>1 DEF OneWorker, Down
    <2>3. WorkersMove
      BY <2>2 DEF WorkersMove, Busy
    <2> QED BY <2>1, <2>3, AbandonedStands, LostKeepsHost DEF HostInv, RequestsInv
  <1>6. ASSUME NEW w \in Workers, LoseConnection(w) PROVE HostInv'
    <2>1. /\ worker' = [worker EXCEPT ![w] = [@ EXCEPT !.pc = "answered", !.reply = "unknown"]]
          /\ inbox' = Abandoned({w}) /\ worker[w].pc \in Busy
          /\ UNCHANGED <<site, tomb, reservation, job, lastJob, journal, host>>
      BY <1>6 DEF LoseConnection, Answer, store, Busy
    <2>2. \A x \in Workers : worker'[x].job = worker[w].job /\ worker'[x].reply = "unknown"
      BY <1>1, <2>1 DEF OneWorker, Worker
    <2>3. WorkersMove
      BY <1>3, <2>1, <2>2 DEF WorkersMove
    <2> QED BY <2>1, <2>3, AbandonedStands, LostKeepsHost DEF HostInv, RequestsInv
  <1>7. ASSUME NEW w \in Workers, DialFails(w) PROVE HostInv'
    <2>1. /\ worker' = [worker EXCEPT ![w] = [@ EXCEPT !.pc = "answered", !.reply = "unavailable"]]
          /\ worker[w].pc \in Busy
          /\ UNCHANGED <<site, tomb, reservation, job, lastJob, inbox, journal, host>>
      BY <1>7 DEF DialFails, Answer, store, wire, Busy
    <2>2. \A x \in Workers : worker'[x].job = worker[w].job /\ worker'[x].reply = "unavailable"
      BY <1>1, <2>1 DEF OneWorker, Worker
    <2>3. WorkersMove
      BY <1>3, <2>1, <2>2 DEF WorkersMove
    <2>4. \A i \in DOMAIN inbox : SameWork(inbox'[i], inbox[i])
      BY <1>2, <2>1 DEF SameWork
    <2>5. Fewer
      BY <2>1, <2>4 DEF Fewer
    <2> QED BY <2>1, <2>3, <2>5, LostKeepsHost DEF HostInv, RequestsInv
  <1> QED BY <1>4, <1>5, <1>6, <1>7 DEF Faults
\* What a domain change may leave behind, as its journal tells.
Telling(h, n, old, new) ==
    /\ h.files = TRUE
    /\ n \in {"none", "changing", "activating", "rollback", "complete", "restored"}
    /\ n \in {"none", "restored"} => h = Up(old)
    /\ n = "complete" => h = Up(new)

ChangeEnds(x, old, new) ==
    /\ x.host.files = TRUE
    /\ x.journal \in {"none", "changing", "activating", "rollback", "complete", "restored"}
    /\ x.journal \in {"none", "restored"} => x.host = Up(old)
    /\ x.journal = "complete" => x.host = Up(new)
    /\ x.reply = "ok" => x.host = Up(new)
    /\ x.reply = "restored" => x.host = Up(old)

LEMMA ChangeOutcome ==
  ASSUME NEW h, NEW n, NEW old, NEW new, Telling(h, n, old, new),
         NEW x \in DomainChangeResults(h, n, old, new)
  PROVE  ChangeEnds(x, old, new)
  <1> USE DEF ChangeEnds
  <1>0. /\ h.files = TRUE
        /\ n \in {"none", "changing", "activating", "rollback", "complete", "restored"}
        /\ n \in {"none", "restored"} => h = Up(old)
        /\ n = "complete" => h = Up(new)
    BY DEF Telling
  <1>1. \A d : Up(d).files = TRUE /\ Off(d).files = TRUE
    BY DEF Up, Off
  <1>2. CASE n \in {"complete", "restored"}
    BY <1>0, <1>2 DEF DomainChangeResults, Result
  <1>3. CASE n \notin {"complete", "restored"}
    <2>1. x \in DomainChangeSteps(h, n, old, new)
      BY <1>0, <1>3 DEF DomainChangeResults
    <2>2. CASE x = Result(h, n, "fail")
      BY <1>0, <1>3, <2>2 DEF Result
    <2>3. CASE x \in PreflightResults(h, n)
      BY <1>0, <1>3, <2>3 DEF PreflightResults, Result
    <2>4. CASE \E m \in {"changing", "activating", "rollback"} :
                 \E t \in Traffic(m, old, new) : x = Result(t, m, "fail")
      <3>0. PICK m \in {"changing", "activating", "rollback"} :
              \E t \in Traffic(m, old, new) : x = Result(t, m, "fail")
        BY <2>4
      <3>1. PICK t \in Traffic(m, old, new) : x = Result(t, m, "fail")
        BY <3>0
      <3>2. t.files = TRUE
        BY <1>1 DEF Traffic
      <3>3. x.host = t /\ x.journal = m /\ x.reply = "fail"
        BY <3>1 DEF Result
      <3> QED BY <3>2, <3>3
    <2>5. CASE \E r \in {"ok", "fail"} : x = Result(Up(new), "complete", r)
      BY <1>1, <2>5 DEF Result
    <2>6. CASE \E r \in {"restored", "fail"} : x = Result(Up(old), "restored", r)
      BY <1>1, <2>6 DEF Result
    <2> DEFINE Open == IF n \in {"none", "changing"} THEN {"changing", "activating", "rollback"} ELSE {n}
    <2>7. Open \subseteq {"changing", "activating", "rollback"}
      BY <1>0, <1>3
    <2>8. \/ x = Result(h, n, "fail") \/ x \in PreflightResults(h, n)
          \/ \E m \in Open : \E t \in Traffic(m, old, new) : x = Result(t, m, "fail")
          \/ \E r \in {"ok", "fail"} : x = Result(Up(new), "complete", r)
          \/ \E r \in {"restored", "fail"} : x = Result(Up(old), "restored", r)
      BY <2>1 DEF DomainChangeSteps
    <2> HIDE DEF Open
    <2> QED BY <2>2, <2>3, <2>4, <2>5, <2>6, <2>7, <2>8
  <1> QED BY <1>2, <1>3

\* What is known of a request before it runs.
Ready(q, n, s, h) ==
    /\ n \in 1..lastJob /\ n \in JobId /\ s \in Sites /\ q.job = n /\ job[n].site = s
    /\ job[n].kind \in JobKinds /\ h = host[s] /\ h \in HostSite
    /\ q.waits \in BOOLEAN
    /\ q.waits = TRUE => job[n].kind = "site.restore_clone"

\* What the other requests may leave behind.
OtherEnds(q, n, h, x) ==
    /\ x.reply = "ok" /\ job[n].kind \in {"site.provision", "site.enable"} => x.host = Up(q.domain)
    /\ job[n].kind = "site.restore_clone" /\ q.waits = FALSE =>
         /\ x.journal = journal[n]
         /\ journal[n] = "done" => x.host = h
         /\ journal[n] # "done" => x.reply = "fail"
         /\ h = Up(q.domain) => x.host = h
    /\ job[n].kind = "site.restore_clone" /\ q.waits = TRUE =>
         x.host = h /\ x.journal \in {journal[n], "done"}
    /\ job[n].kind = "site.delete" =>
         /\ journal[n] \in {"none", "removing", "done"} => x.journal \in {"none", "removing", "done"}
         /\ journal[n] = "done" => x.host = h
         /\ journal[n] # "done" /\ (x.journal = "done" \/ x.reply = "ok") => x.host = Gone
    /\ job[n].kind \in {"site.provision", "site.enable", "site.disable"} => x.journal = journal[n]
    /\ job[n].kind \notin StatusKinds => x.host = h /\ x.journal = journal[n]

LEMMA OtherOutcomes ==
  ASSUME NEW q, NEW n, NEW s, NEW h, Ready(q, n, s, h), NEW x \in Results(q)
  PROVE  OtherEnds(q, n, h, x)
  <1>0. n = q.job /\ h = host[job[n].site] /\ h \in HostSite /\ job[n].kind \in JobKinds /\ q.waits \in BOOLEAN
    BY DEF Ready
  <1>1. ASSUME job[n].kind \in {"site.provision", "site.enable"}
        PROVE  (x.reply = "ok" => x.host = Up(q.domain)) /\ x.journal = journal[n]
    <2>1. x \in ProvisionResults(h, journal[n], q.domain)
      BY <1>0, <1>1 DEF Results
    <2> QED BY <2>1 DEF ProvisionResults, Result
  <1>2. ASSUME job[n].kind = "site.restore_clone", q.waits = FALSE
        PROVE  /\ x.journal = journal[n]
               /\ journal[n] = "done" => x.host = h
               /\ journal[n] # "done" => x.reply = "fail"
               /\ h = Up(q.domain) => x.host = h
    <2>1. x \in CloneResults(h, journal[n], q.domain)
      BY <1>0, <1>2 DEF Results
    <2>2. CASE journal[n] = "done"
      BY <2>1, <2>2 DEF CloneResults, Result
    <2>3. CASE journal[n] # "done"
      <3>1. x \in ProvisionResults(h, journal[n], q.domain) /\ x.reply = "fail"
        BY <2>1, <2>3 DEF CloneResults
      <3>2. x.journal = journal[n]
        BY <3>1 DEF ProvisionResults, Result
      <3>3. ASSUME h = Up(q.domain) PROVE x.host = h
        <4>1. h.files = TRUE /\ h.serving = TRUE
          BY <3>3 DEF Up
        <4>2. [h EXCEPT !.files = TRUE] = h
          BY <1>0, <4>1 DEF HostSite
        <4>3. (IF h.serving THEN Up(q.domain) ELSE Off(q.domain)) = h
          BY <3>3, <4>1
        <4>4. x \in {Result(h, journal[n], "ok"), Result(h, journal[n], "fail")}
          BY <3>1, <3>3, <4>2, <4>3 DEF ProvisionResults
        <4> QED BY <4>4 DEF Result
      <3> QED BY <2>3, <3>1, <3>2, <3>3
    <2> QED BY <2>2, <2>3
  <1>3. ASSUME job[n].kind = "site.restore_clone", q.waits = TRUE
        PROVE  x.host = h /\ x.journal \in {journal[n], "done"}
    <2>1. x \in RestoreResults(h, journal[n])
      BY <1>0, <1>3 DEF Results
    <2> QED BY <2>1 DEF RestoreResults, Result
  <1>4. ASSUME job[n].kind = "site.delete"
        PROVE  /\ journal[n] \in {"none", "removing", "done"} => x.journal \in {"none", "removing", "done"}
               /\ journal[n] = "done" => x.host = h
               /\ journal[n] # "done" /\ (x.journal = "done" \/ x.reply = "ok") => x.host = Gone
    <2>1. x \in DeleteResults(h, journal[n])
      BY <1>0, <1>4 DEF Results
    <2> QED BY <2>1 DEF DeleteResults, Result
  <1>5. ASSUME job[n].kind = "site.disable" PROVE x.journal = journal[n]
    <2>1. x \in DisableResults(h, journal[n])
      BY <1>0, <1>5 DEF Results
    <2> QED BY <2>1 DEF DisableResults, Result
  <1>6. ASSUME job[n].kind \notin StatusKinds PROVE x.host = h /\ x.journal = journal[n]
    <2>1. x \in {Result(h, journal[n], "ok"), Result(h, journal[n], "fail")}
      BY <1>0, <1>6, KindFacts DEF Results
    <2> QED BY <2>1 DEF Result
  <1> QED BY <1>1, <1>2, <1>3, <1>4, <1>5, <1>6 DEF OtherEnds

\* What came before a request that gets the locks and is still there changes no
\* site but by a domain change that waits for the backup lock.
LEMMA Overtaken ==
  ASSUME Ordered, NEW i \in Nat, MayRun(i), NEW k \in 1..(i - 1), NEW s, Acts(inbox[k], s),
         inbox[k].waits \in BOOLEAN
  PROVE  job[inbox[k].job].kind = "site.domain_change" /\ ~TakesBackupLock(inbox[i])
  BY KindFacts DEF MayRun, Acts, TakesBackupLock

\* The requests that stay when one has been carried out.
LEMMA Remaining ==
  ASSUME StoreInv, HostInv, NEW i \in DOMAIN inbox, inbox' = RemoveAt(inbox, i)
  PROVE  /\ Fewer /\ Len(inbox') = Len(inbox) - 1 /\ DOMAIN inbox' = 1..(Len(inbox) - 1)
         /\ \A k \in DOMAIN inbox' : \E l \in DOMAIN inbox : l # i /\ inbox'[k] = inbox[l]
         /\ \A k \in DOMAIN inbox' : inbox'[k].caller # None => k = Len(inbox')
  <1>1. /\ inbox \in Seq(Sent) /\ DOMAIN inbox = 1..Len(inbox) /\ Len(inbox) \in Nat
        /\ \A k \in DOMAIN inbox : inbox[k].waits \in BOOLEAN
    BY Known DEF Sent, Request
  <1>2. /\ inbox' \in Seq(Sent) /\ Len(inbox') = Len(inbox) - 1
        /\ \A k \in 1..(Len(inbox) - 1) : inbox'[k] = IF k < i THEN inbox[k] ELSE inbox[k + 1]
    BY <1>1, RemoveAtProperties
  <1>3. DOMAIN inbox' = 1..(Len(inbox) - 1)
    BY <1>2
  <1> DEFINE at(k) == IF k < i THEN k ELSE k + 1
  <1>4. \A k \in DOMAIN inbox' : at(k) \in DOMAIN inbox /\ at(k) # i /\ inbox'[k] = inbox[at(k)]
    BY <1>1, <1>2, <1>3
  <1>5. \A k, l \in DOMAIN inbox' : k < l => at(k) < at(l)
    BY <1>1, <1>3
  <1>6. \A k \in DOMAIN inbox' : at(k) = Len(inbox) => k = Len(inbox')
    BY <1>1, <1>2, <1>3
  <1> HIDE DEF at
  <1>7. \A k \in DOMAIN inbox' : SameWork(inbox'[k], inbox[at(k)])
    BY <1>1, <1>4 DEF SameWork
  <1>8. Fewer
    BY <1>4, <1>5, <1>7 DEF Fewer
  <1>9. \A k \in DOMAIN inbox' : inbox'[k].caller # None => k = Len(inbox')
    BY <1>4, <1>6 DEF HostInv, RequestsInv
  <1> QED BY <1>2, <1>3, <1>4, <1>8, <1>9
\* A request that changes its site runs for the operation that owns the site:
\* a change for the reservation of the site, a deletion for the only one, a
\* clone for the only operation the site has had.
LEMMA Owners ==
  ASSUME StoreInv, HostInv, NEW i \in DOMAIN inbox, NEW s \in Sites, Acts(inbox[i], s)
  PROVE  /\ inbox[i].domain = site[s].domain /\ s \notin tomb /\ site[s].status # "active"
         /\ \A r \in reservation : r.site = s => r.job = inbox[i].job
         /\ job[inbox[i].job].kind = "site.domain_change" =>
              site[s].status \in DomainLocked /\ \E r \in reservation : r.job = inbox[i].job /\ r.site = s
         /\ \A j \in JobId : Cloning(j) /\ job[j].site = s => j = inbox[i].job
         /\ \A j \in JobId : Deletes(j) /\ job[j].site = s =>
              site[s].status \notin DomainLocked /\ (journal[j] # "none" => j = inbox[i].job)
  <1>1. PICK n \in 1..lastJob : n = inbox[i].job
    BY Known
  <1>2. n \in JobId /\ job[n].site = s /\ job[n].kind \in StatusKinds
    BY <1>1, Known DEF Acts
  <1>3. inbox[i].domain = site[s].domain /\ s \notin tomb /\ site[s].status # "active"
    BY DEF HostInv, RequestsInv, SettledInv, Still
  <1>4. ASSUME job[n].kind = "site.domain_change"
        PROVE  site[s].status \in DomainLocked /\ \E r \in reservation : r.job = n /\ r.site = s
    <2>1. PICK r \in reservation : r.job = n
      BY <1>1, <1>4 DEF HostInv, ChangesInv
    <2> QED BY <1>2, <2>1, Known
  <1>5. ASSUME NEW r \in reservation, r.site = s PROVE r.job = n
    <2>1. job[n].kind = "site.domain_change"
      BY <1>1, <1>5, Known DEF HostInv, ChangesInv
    <2>2. PICK p \in reservation : p.job = n /\ p.site = s
      BY <1>4, <2>1
    <2>3. p = r
      BY <1>5, <2>2 DEF StoreInv, DomainsDisjoint
    <2> QED BY <2>2, <2>3
  <1>6. \A j \in JobId : Cloning(j) /\ job[j].site = s => j = n
    BY <1>2 DEF HostInv, ClonesInv
  <1>7. ASSUME NEW j \in JobId, Deletes(j), job[j].site = s
        PROVE  site[s].status \notin DomainLocked /\ (journal[j] # "none" => j = n)
    <2>1. site[s].status \in {"deleting", "delete_failed"}
      BY <1>3, <1>7 DEF HostInv, DeletesInv
    <2>2. journal[j] # "none" => j = n
      BY <1>1, <1>7 DEF HostInv, DeletesInv
    <2> QED BY <2>1, <2>2 DEF DomainLocked
  <1> QED BY <1>1, <1>3, <1>4, <1>5, <1>6, <1>7

\* Every pending request is.
LEMMA RequestsAreReady ==
  ASSUME StoreInv, HostInv, NEW i \in DOMAIN inbox
  PROVE  Ready(inbox[i], inbox[i].job, job[inbox[i].job].site, host[job[inbox[i].job].site])
  <1>1. inbox[i] \in Sent /\ inbox[i].job \in 1..lastJob /\ inbox[i].job \in JobId
    BY Known
  <1>2. job[inbox[i].job].kind \in JobKinds /\ job[inbox[i].job].site \in Sites
    BY <1>1, Known
  <1>3. inbox[i].waits \in BOOLEAN
    BY <1>1 DEF Sent, Request
  <1>4. inbox[i].waits = TRUE => job[inbox[i].job].kind = "site.restore_clone"
    BY DEF HostInv, RequestsInv
  <1>5. host[job[inbox[i].job].site] \in HostSite
    BY <1>2 DEF StoreInv, TypeOK
  <1> QED BY <1>1, <1>2, <1>3, <1>4, <1>5 DEF Ready

\* The result of a request, for the site it belongs to.
Outcome(q, n, s, h, x) ==
    /\ ~Acts(q, s) => x.host = h
    /\ x.journal = journal[n] \/ job[n].kind \in {"site.domain_change", "site.delete", "site.restore_clone"}
    /\ Deletes(n) => /\ x.journal \in {"none", "removing", "done"}
                     /\ (x.journal = "done" \/ x.reply = "ok") => x.host = Gone
    /\ Cloning(n) /\ x.journal = "done" => x.host = Up(site[s].domain)
    /\ Cloning(n) /\ h = Up(site[s].domain) => x.host = h
    /\ x.reply = "ok" /\ Cloning(n) => x.host = Up(site[s].domain)
    /\ x.reply = "ok" /\ job[n].kind \in {"site.provision", "site.enable"} => x.host = Up(site[s].domain)
    /\ job[n].kind = "site.domain_change" =>
         /\ x.host.files = TRUE
         /\ x.journal \in {"none", "changing", "activating", "rollback", "complete", "restored"}
         /\ x.journal \in {"none", "restored"} => x.host = Up(site[s].domain)
         /\ x.journal = "complete" => x.host = Up(job[n].domain)
         /\ x.reply = "ok" => x.host = Up(job[n].domain)
         /\ x.reply = "restored" => x.host = Up(site[s].domain)

LEMMA OutcomeTells ==
  ASSUME StoreInv, HostInv, NEW i \in DOMAIN inbox, NEW n, NEW s, NEW h, Ready(inbox[i], n, s, h),
         NEW x \in Results(inbox[i])
  PROVE  Outcome(inbox[i], n, s, h, x)
  <1> DEFINE q == inbox[i]
  <1>1. /\ n \in JobId /\ s \in Sites /\ q.job = n /\ job[n].site = s /\ job[n].kind \in JobKinds
        /\ h = host[job[n].site] /\ h \in HostSite /\ q.waits \in BOOLEAN
        /\ q.waits = TRUE => job[n].kind = "site.restore_clone"
    BY DEF Ready
  <1>0. OtherEnds(q, n, h, x)
    BY OtherOutcomes, Zenon
  <1>2. /\ x.reply = "ok" /\ job[n].kind \in {"site.provision", "site.enable"} => x.host = Up(q.domain)
        /\ job[n].kind = "site.restore_clone" /\ q.waits = FALSE =>
             /\ x.journal = journal[n]
             /\ journal[n] = "done" => x.host = h
             /\ journal[n] # "done" => x.reply = "fail"
             /\ h = Up(q.domain) => x.host = h
        /\ job[n].kind = "site.restore_clone" /\ q.waits = TRUE =>
             x.host = h /\ x.journal \in {journal[n], "done"}
        /\ job[n].kind = "site.delete" =>
             /\ journal[n] \in {"none", "removing", "done"} => x.journal \in {"none", "removing", "done"}
             /\ journal[n] = "done" => x.host = h
             /\ journal[n] # "done" /\ (x.journal = "done" \/ x.reply = "ok") => x.host = Gone
        /\ job[n].kind \in {"site.provision", "site.enable", "site.disable"} => x.journal = journal[n]
        /\ job[n].kind \notin StatusKinds => x.host = h /\ x.journal = journal[n]
    BY <1>0 DEF OtherEnds
  <1>3. Acts(q, s) \/ q.waits = TRUE \/ job[n].kind \notin StatusKinds
    BY <1>1 DEF Acts
  <1>4. Acts(q, s) => q.domain = site[s].domain
    BY <1>1, Owners
  <1>5. ~Acts(q, s) => x.host = h
    BY <1>1, <1>2, <1>3
  <1>6. x.journal = journal[n] \/ job[n].kind \in {"site.domain_change", "site.delete", "site.restore_clone"}
    BY <1>1, <1>2, KindFacts
  <1>7. ASSUME Deletes(n)
        PROVE  /\ x.journal \in {"none", "removing", "done"}
               /\ (x.journal = "done" \/ x.reply = "ok") => x.host = Gone
    <2>1. job[n].kind = "site.delete" /\ journal[n] \in {"none", "removing", "done"}
          /\ (journal[n] = "done" => h = Gone)
      BY <1>1, <1>7 DEF HostInv, DeletesInv, Deletes
    <2> QED BY <1>2, <2>1
  <1>8. ASSUME Cloning(n)
        PROVE  /\ x.journal = "done" => x.host = Up(site[s].domain)
               /\ h = Up(site[s].domain) => x.host = h
               /\ x.reply = "ok" => x.host = Up(site[s].domain)
    <2>1. job[n].kind = "site.restore_clone"
      BY <1>8 DEF Cloning
    <2>2. journal[n] = "done" => h = Up(site[s].domain)
      BY <1>1, <1>8 DEF HostInv, ClonesInv
    <2>3. q.waits = TRUE => h = Up(site[s].domain)
      BY <1>1, <1>8 DEF HostInv, ClonesInv
    <2>4. CASE q.waits = TRUE
      BY <1>2, <2>1, <2>3, <2>4
    <2>5. CASE q.waits = FALSE
      <3>1. q.domain = site[s].domain
        BY <1>1, <1>4, <2>1, <2>5, KindFacts DEF Acts
      <3> QED BY <1>2, <2>1, <2>2, <2>5, <3>1
    <2> QED BY <1>1, <2>4, <2>5
  <1>9. ASSUME x.reply = "ok", job[n].kind \in {"site.provision", "site.enable"}
        PROVE  x.host = Up(site[s].domain)
    <2>1. Acts(q, s)
      BY <1>1, <1>9, KindFacts DEF Acts
    <2> QED BY <1>2, <1>4, <1>9, <2>1
  <1>10. ASSUME job[n].kind = "site.domain_change"
         PROVE  /\ x.host.files = TRUE
                /\ x.journal \in {"none", "changing", "activating", "rollback", "complete", "restored"}
                /\ x.journal \in {"none", "restored"} => x.host = Up(site[s].domain)
                /\ x.journal = "complete" => x.host = Up(job[n].domain)
                /\ x.reply = "ok" => x.host = Up(job[n].domain)
                /\ x.reply = "restored" => x.host = Up(site[s].domain)
    <2>1. Acts(q, s)
      BY <1>1, <1>10, KindFacts DEF Acts
    <2>2. PICK r \in reservation : r.job = n /\ r.site = s
      BY <1>1, <1>10, <2>1, Owners
    <2>3. ChangeTells(n, s)
      BY <2>2 DEF HostInv, ChangesInv
    <2>4. /\ h.files = TRUE
          /\ journal[n] \in {"none", "changing", "activating", "rollback", "complete", "restored"}
          /\ journal[n] \in {"none", "restored"} => h = Up(site[s].domain)
          /\ journal[n] = "complete" => h = Up(job[n].domain)
      BY <1>1, <2>3 DEF ChangeTells
    <2>5. PICK jn, old, new : jn = journal[n] /\ old = site[s].domain /\ new = job[n].domain
      OBVIOUS
    <2>6. x \in DomainChangeResults(h, jn, old, new)
      BY <1>1, <1>4, <1>10, <2>1, <2>5 DEF Results
    <2>7. Telling(h, jn, old, new)
      BY <2>4, <2>5 DEF Telling
    <2>8. ChangeEnds(x, old, new)
      BY <2>6, <2>7, ChangeOutcome, Zenon
    <2>9. /\ x.host.files = TRUE
          /\ x.journal \in {"none", "changing", "activating", "rollback", "complete", "restored"}
          /\ x.journal \in {"none", "restored"} => x.host = Up(old)
          /\ x.journal = "complete" => x.host = Up(new)
          /\ x.reply = "ok" => x.host = Up(new)
          /\ x.reply = "restored" => x.host = Up(old)
      BY <2>8 DEF ChangeEnds
    <2> QED BY <2>5, <2>9
  <1> QED BY <1>5, <1>6, <1>7, <1>8, <1>9, <1>10 DEF Outcome
\* A request has been carried out.
LEMMA ExecuteKeepsHost ==
  ASSUME StoreInv, HostInv, OneWorker, Ordered, NEW i \in DOMAIN inbox, Execute(i)
  PROVE  HostInv'
  <1>1. PICK q, n, s, h : /\ q = inbox[i] /\ n = q.job /\ s = job[n].site /\ h = host[s]
                          /\ Ready(q, n, s, h)
    BY RequestsAreReady
  <1>2. /\ n \in 1..lastJob /\ n \in JobId /\ s \in Sites /\ job[n].kind \in JobKinds /\ q.waits \in BOOLEAN
        /\ q.waits = TRUE => job[n].kind = "site.restore_clone"
    BY <1>1 DEF Ready
  <1>3. PICK x \in Results(q) :
          /\ host' = [host EXCEPT ![s] = x.host]
          /\ journal' = [journal EXCEPT ![n] = x.journal]
          /\ IF q.caller = None THEN UNCHANGED worker ELSE Answer(q.caller, x.reply)
    BY <1>1 DEF Execute
  <1>4. /\ inbox' = RemoveAt(inbox, i) /\ MayRun(i)
        /\ UNCHANGED <<site, tomb, reservation, job, lastJob>>
    BY DEF Execute, store
  <1>5. /\ host'[s] = x.host /\ \A t \in Sites : t # s => host'[t] = host[t]
        /\ journal'[n] = x.journal /\ \A j \in JobId : j # n => journal'[j] = journal[j]
    BY <1>2, <1>3 DEF StoreInv, TypeOK
  <1>6. /\ Fewer /\ Len(inbox') = Len(inbox) - 1 /\ DOMAIN inbox' = 1..(Len(inbox) - 1)
        /\ \A k \in DOMAIN inbox' : \E l \in DOMAIN inbox : l # i /\ inbox'[k] = inbox[l]
        /\ \A k \in DOMAIN inbox' : inbox'[k].caller # None => k = Len(inbox')
    BY <1>4, Remaining
  <1>7. /\ DOMAIN inbox = 1..Len(inbox) /\ Len(inbox) \in Nat
        /\ \A k \in DOMAIN inbox : inbox[k].waits \in BOOLEAN /\ inbox[k].job \in 1..lastJob
                                   /\ inbox[k].job \in JobId
    BY Known DEF Sent, Request
  <1>8. /\ ~Acts(q, s) => x.host = h
        /\ x.journal = journal[n] \/ job[n].kind \in {"site.domain_change", "site.delete", "site.restore_clone"}
        /\ Deletes(n) => /\ x.journal \in {"none", "removing", "done"}
                         /\ (x.journal = "done" \/ x.reply = "ok") => x.host = Gone
        /\ Cloning(n) /\ x.journal = "done" => x.host = Up(site[s].domain)
        /\ Cloning(n) /\ h = Up(site[s].domain) => x.host = h
        /\ x.reply = "ok" /\ Cloning(n) => x.host = Up(site[s].domain)
        /\ x.reply = "ok" /\ job[n].kind \in {"site.provision", "site.enable"} => x.host = Up(site[s].domain)
        /\ job[n].kind = "site.domain_change" =>
             /\ x.host.files = TRUE
             /\ x.journal \in {"none", "changing", "activating", "rollback", "complete", "restored"}
             /\ x.journal \in {"none", "restored"} => x.host = Up(site[s].domain)
             /\ x.journal = "complete" => x.host = Up(job[n].domain)
             /\ x.reply = "ok" => x.host = Up(job[n].domain)
             /\ x.reply = "restored" => x.host = Up(site[s].domain)
    <2>1. Ready(inbox[i], n, s, h) /\ x \in Results(inbox[i])
      BY <1>1
    <2>2. Outcome(inbox[i], n, s, h, x)
      BY <2>1, OutcomeTells, Zenon
    <2> QED BY <1>1, <2>2 DEF Outcome
  <1>9. Acts(q, s) =>
          /\ \A r \in reservation : r.site = s => r.job = n
          /\ job[n].kind = "site.domain_change" =>
               site[s].status \in DomainLocked /\ \E r \in reservation : r.job = n /\ r.site = s
          /\ \A j \in JobId : Cloning(j) /\ job[j].site = s => j = n
          /\ \A j \in JobId : Deletes(j) /\ job[j].site = s =>
               site[s].status \notin DomainLocked /\ (journal[j] # "none" => j = n)
    BY <1>1, <1>2, Owners
  \* Of what is left, only a domain change that came earlier and waits acts for the site.
  <1>10. ASSUME NEW k \in DOMAIN inbox, k < i, Acts(inbox[k], s)
         PROVE  /\ job[inbox[k].job].kind = "site.domain_change" /\ ~TakesBackupLock(q)
                /\ site[s].status \in DomainLocked
                /\ \A j \in JobId : Deletes(j) => job[j].site # s
                /\ \A j \in JobId : Cloning(j) => job[j].site # s
    <2>1. k \in 1..(i - 1) /\ i \in Nat
      BY <1>7, <1>10
    <2>2. job[inbox[k].job].kind = "site.domain_change" /\ ~TakesBackupLock(inbox[i])
      BY <1>4, <1>7, <1>10, <2>1, Overtaken
    <2>3. /\ site[s].status \in DomainLocked
          /\ \A j \in JobId : Cloning(j) /\ job[j].site = s => j = inbox[k].job
          /\ \A j \in JobId : Deletes(j) /\ job[j].site = s => site[s].status \notin DomainLocked
      BY <1>2, <1>10, <2>2, Owners
    <2>4. \A j \in JobId : Cloning(j) => job[j].site # s
      BY <2>2, <2>3 DEF Cloning
    <2> QED BY <1>1, <2>2, <2>3, <2>4
  <1>11. RequestsMove
    <2>1. \A k \in DOMAIN inbox' : inbox'[k].waits = TRUE => job[inbox'[k].job].kind = "site.restore_clone"
      BY <1>6 DEF HostInv, RequestsInv
    <2>2. \A j \in JobId : lastJob < j => journal'[j] = "none"
      BY <1>2, <1>5, Known DEF HostInv, RequestsInv
    <2>3. ASSUME NEW w \in Workers, worker'[w].pc \in Busy PROVE job[worker'[w].job].status = "running"
      <3>1. worker[w].pc \in Busy /\ worker'[w].job = worker[w].job
        <4>1. CASE q.caller = None
          BY <1>3, <2>3, <4>1
        <4>2. CASE q.caller # None
          <5>1. q.caller \in Workers
            BY <1>1, <4>2, Known DEF Sent, Request
          <5>2. worker[q.caller].pc = "calling"
            BY <1>1, <4>2 DEF StoreInv, CallersWait
          <5>3. worker' = [worker EXCEPT ![w] = [@ EXCEPT !.pc = "answered", !.reply = x.reply]] /\ w = q.caller
            BY <1>3, <4>2, <5>1 DEF Answer, OneWorker
          <5> QED BY <5>2, <5>3 DEF StoreInv, TypeOK, Worker, Busy
        <4> QED BY <4>1, <4>2
      <3> QED BY <3>1 DEF HostInv, RequestsInv
    <2> QED BY <1>6, <2>1, <2>2, <2>3 DEF RequestsMove
  <1>12. HostMoves
    BY <1>1, <1>2, <1>5, <1>8 DEF HostMoves, Still
  <1>13. \A r \in reservation : ChangeTells(r.job, r.site)'
    <2> SUFFICES ASSUME NEW r \in reservation PROVE ChangeTells(r.job, r.site)'
      OBVIOUS
    <2>1. r.job \in JobId /\ r.site \in Sites /\ job[r.job].site = r.site /\ job[r.job].kind = "site.domain_change"
      BY Known
    <2>2. ChangeTells(r.job, r.site)
      BY DEF HostInv, ChangesInv
    <2>3. CASE r.job = n
      <3>1. r.site = s /\ job[n].kind = "site.domain_change"
        BY <1>1, <2>1, <2>3
      <3> QED BY <1>4, <1>5, <1>8, <2>3, <3>1 DEF ChangeTells
    <2>4. CASE r.job # n
      <3>1. host'[r.site] = host[r.site]
        BY <1>1, <1>5, <1>8, <1>9, <2>1, <2>4
      <3> QED BY <1>4, <1>5, <2>1, <2>2, <2>4, <3>1 DEF ChangeTells
    <2> QED BY <2>3, <2>4
  <1>14. DeletesMove
    <2> SUFFICES ASSUME NEW j \in JobId, Deletes(j)
                 PROVE  /\ journal'[j] \in {"none", "removing", "done"}
                        /\ journal'[j] = "done" => host'[job[j].site] = Gone
                        /\ journal'[j] # "none" =>
                             \A k \in DOMAIN inbox' : Acts(inbox'[k], job[j].site) => inbox'[k].job = j
      BY DEF DeletesMove
    <2>1. /\ journal[j] \in {"none", "removing", "done"}
          /\ journal[j] = "done" => host[job[j].site] = Gone
          /\ \A k \in DOMAIN inbox : journal[j] # "none" => (Acts(inbox[k], job[j].site) => inbox[k].job = j)
      BY DEF HostInv, DeletesInv
    <2>2. job[j].site \in Sites
      BY Known, KindsAssumption, KindFacts DEF Deletes, NoJob
    <2>3. CASE j = n
      <3>1. job[n].kind = "site.delete" /\ Acts(q, s)
        BY <1>1, <1>2, <2>3, KindFacts DEF Deletes, Acts
      <3>2. ASSUME NEW k \in DOMAIN inbox', Acts(inbox'[k], s) PROVE inbox'[k].job = n
        <4>1. PICK l \in DOMAIN inbox : l # i /\ inbox'[k] = inbox[l]
          BY <1>6
        <4>2. CASE l < i
          BY <1>10, <2>3, <3>2, <4>1, <4>2, <1>1
        <4>3. CASE i < l
          <5>1. inbox[l].job = inbox[i].job
            BY <1>1, <1>2, <2>3, <3>1, <3>2, <4>1, <4>3 DEF HostInv, DeletesInv
          <5> QED BY <1>1, <4>1, <5>1
        <4> QED BY <1>7, <4>1, <4>2, <4>3
      <3> QED BY <1>1, <1>5, <1>8, <2>3, <3>2
    <2>4. CASE j # n
      <3>1. journal[j] # "none" => host'[job[j].site] = host[job[j].site]
        BY <1>1, <1>5, <1>8, <1>9, <2>2, <2>4
      <3> QED BY <1>5, <1>6, <2>1, <2>4, <3>1
    <2> QED BY <2>3, <2>4
  <1>15. ClonesMove
    <2>1. ASSUME NEW j \in JobId, Cloning(j), j # n
          PROVE  host'[job[j].site] = host[job[j].site] /\ journal'[j] = journal[j]
      <3>1. job[j].site \in Sites
        BY <2>1, Known, KindsAssumption, KindFacts DEF Cloning, NoJob
      <3> QED BY <1>1, <1>5, <1>8, <1>9, <2>1, <3>1
    <2>2. \A j \in JobId : Cloning(j) /\ journal[j] = "done" =>
            host[job[j].site] = Up(site[job[j].site].domain)
      BY DEF HostInv, ClonesInv
    <2>3. \A j \in JobId : Cloning(j) /\ journal'[j] = "done" =>
            host'[job[j].site] = Up(site[job[j].site].domain)
      BY <1>1, <1>5, <1>8, <2>1, <2>2
    <2>4. ASSUME NEW k \in DOMAIN inbox', Cloning(inbox'[k].job), inbox'[k].waits = TRUE
          PROVE  host'[job[inbox'[k].job].site] = Up(site[job[inbox'[k].job].site].domain)
      <3>1. PICK l \in DOMAIN inbox : inbox'[k] = inbox[l]
        BY <1>6
      <3>2. host[job[inbox[l].job].site] = Up(site[job[inbox[l].job].site].domain)
        BY <2>4, <3>1 DEF HostInv, ClonesInv
      <3>3. CASE inbox[l].job = n
        BY <1>1, <1>5, <1>8, <2>4, <3>1, <3>2, <3>3
      <3>4. CASE inbox[l].job # n
        BY <1>7, <2>1, <2>4, <3>1, <3>2, <3>4
      <3> QED BY <3>3, <3>4
    <2> QED BY <2>3, <2>4 DEF ClonesMove
  <1>16. AnswersInv'
    <2> SUFFICES ASSUME NEW w \in Workers, worker'[w].pc = "answered"
                 PROVE  AnswerTrue(worker[w].job, worker[w].reply)'
      BY DEF AnswersInv
    <2>1. \A t : Still(t) => Still(t)'
      BY <1>4, <1>6, StillStill
    <2>2. CASE q.caller = None
      <3>1. worker' = worker
        BY <1>3, <2>2
      <3>2. AnswerTrue(worker[w].job, worker[w].reply) /\ worker[w].job \in 1..lastJob
        BY <3>1, Known DEF HostInv, AnswersInv, Busy
      <3>3. \A t \in Sites : Still(t) => host'[t] = host[t]
        BY <1>12 DEF HostMoves
      <3>4. job[worker[w].job].site \in Sites
        BY <3>2, Known
      <3> QED BY <1>4, <2>1, <3>1, <3>2, <3>3, <3>4 DEF AnswerTrue, Deletes
    <2>3. CASE q.caller # None
      <3>1. q.caller \in Workers
        BY <1>1, <2>3, Known DEF Sent, Request
      <3>2. worker[w].pc = "calling" /\ worker[w].job = n /\ w = q.caller
        BY <1>1, <2>3, <3>1 DEF StoreInv, CallersWait, OneWorker
      <3>3. worker' = [worker EXCEPT ![w] = [@ EXCEPT !.pc = "answered", !.reply = x.reply]]
        BY <1>3, <2>3, <3>2 DEF Answer
      <3>4. worker'[w].job = n /\ worker'[w].reply = x.reply
        BY <3>2, <3>3 DEF StoreInv, TypeOK, Worker
      <3>5. i = Len(inbox)
        BY <1>1, <2>3 DEF HostInv, RequestsInv
      <3>6. job[n].status = "running"
        BY <3>2 DEF HostInv, RequestsInv, Busy
      <3>7. ASSUME job[n].kind \in StatusKinds PROVE Still(s)'
        <4>1. site[s].status = Transit[job[n].kind]
          BY <1>1, <1>2, <3>6, <3>7, OwnStatus DEF Pending
        <4>2. ASSUME NEW k \in DOMAIN inbox', Acts(inbox'[k], s) PROVE FALSE
          <5>1. PICK l \in DOMAIN inbox : l # i /\ inbox'[k] = inbox[l]
            BY <1>6
          <5>2. l < i
            BY <1>7, <3>5, <5>1
          <5>3. ~TakesBackupLock(q) /\ site[s].status \in DomainLocked
            BY <1>10, <4>2, <5>1, <5>2
          <5>4. job[n].kind = "site.domain_change"
            BY <3>7, <4>1, <5>3, KindFacts DEF DomainLocked
          <5> QED BY <1>1, <5>3, <5>4 DEF TakesBackupLock
        <4> QED BY <1>4, <4>2 DEF Still, Acts
      <3>8. job[n].kind = "site.restore_clone" => Cloning(n)
        BY <3>6 DEF Cloning, Pending
      <3>9. /\ x.reply = "ok" /\ job[n].kind \in Provisioning => host'[s] = Up(site[s].domain) /\ Still(s)'
            /\ x.reply = "ok" /\ job[n].kind = "site.domain_change" => host'[s] = Up(job[n].domain) /\ Still(s)'
            /\ x.reply = "restored" /\ job[n].kind = "site.domain_change" =>
                 host'[s] = Up(site[s].domain) /\ Still(s)'
            /\ x.reply = "ok" /\ Deletes(n) => host'[s] = Gone /\ Still(s)'
        BY <1>5, <1>8, <3>7, <3>8, KindFacts DEF Provisioning, Deletes
      <3>10. AnswerTrue(n, x.reply)'
        BY <1>1, <1>4, <3>9 DEF AnswerTrue, Deletes
      <3> QED BY <3>4, <3>10
    <2> QED BY <2>2, <2>3
  <1> QED BY <1>4, <1>6, <1>11, <1>12, <1>13, <1>14, <1>15, <1>16, RequestsKeepHost
\* A clone has its target and waits for the backup lock.
LEMMA CloneKeepsHost ==
  ASSUME StoreInv, HostInv, NEW i \in DOMAIN inbox, CloneWaits(i)
  PROVE  HostInv'
  <1>1. PICK q, n, s, h : /\ q = inbox[i] /\ n = q.job /\ s = job[n].site /\ h = host[s]
                          /\ Ready(q, n, s, h)
    BY RequestsAreReady
  <1>2. n \in JobId /\ s \in Sites /\ q.waits \in BOOLEAN
    BY <1>1 DEF Ready
  <1>3. /\ job[n].kind = "site.restore_clone" /\ q.waits = FALSE /\ journal[n] # "done"
        /\ host' = [host EXCEPT ![s] = Up(q.domain)] /\ inbox' = [inbox EXCEPT ![i].waits = TRUE]
        /\ UNCHANGED <<site, tomb, reservation, job, lastJob, journal, worker>>
    BY <1>1, <1>2 DEF CloneWaits, store
  <1>4. /\ inbox \in Seq(Sent) /\ DOMAIN inbox = 1..Len(inbox)
        /\ \A k \in DOMAIN inbox : inbox[k] \in Request /\ inbox[k].waits \in BOOLEAN /\ inbox[k].job \in JobId
    BY Known DEF Sent, Request
  <1>5. /\ DOMAIN inbox' = DOMAIN inbox /\ Len(inbox') = Len(inbox)
        /\ \A k \in DOMAIN inbox : k # i => inbox'[k] = inbox[k]
        /\ inbox'[i] = [q EXCEPT !.waits = TRUE]
    BY <1>1, <1>3, <1>4
  <1>6. inbox'[i].job = n /\ inbox'[i].domain = q.domain /\ inbox'[i].caller = q.caller /\ inbox'[i].waits = TRUE
    BY <1>1, <1>4, <1>5 DEF Request
  <1>7. Acts(q, s)
    BY <1>1, <1>3, KindFacts DEF Acts
  <1>8. /\ q.domain = site[s].domain
        /\ \A r \in reservation : r.site = s => r.job = n
        /\ \A j \in JobId : Cloning(j) /\ job[j].site = s => j = n
        /\ \A j \in JobId : Deletes(j) /\ job[j].site = s => (journal[j] # "none" => j = n)
    BY <1>1, <1>2, <1>7, Owners
  <1>9. host'[s] = Up(site[s].domain) /\ \A t \in Sites : t # s => host'[t] = host[t]
    BY <1>2, <1>3, <1>8 DEF StoreInv, TypeOK
  <1>10. \A k \in DOMAIN inbox : SameWork(inbox'[k], inbox[k]) /\ inbox'[k].caller = inbox[k].caller
                                 /\ inbox'[k].job = inbox[k].job
    <2>1. SameWork(inbox'[i], inbox[i]) /\ inbox'[i].caller = inbox[i].caller /\ inbox'[i].job = inbox[i].job
      BY <1>1, <1>2, <1>3, <1>6 DEF SameWork
    <2>2. \A k \in DOMAIN inbox : k # i => SameWork(inbox'[k], inbox[k])
      BY <1>4, <1>5 DEF SameWork
    <2> QED BY <1>5, <2>1, <2>2
  <1>11. Fewer
    BY <1>5, <1>10 DEF Fewer
  <1>12. RequestsMove
    <2>1. \A k \in DOMAIN inbox' : inbox'[k].caller # None => k = Len(inbox')
      BY <1>5, <1>10 DEF HostInv, RequestsInv
    <2>2. \A k \in DOMAIN inbox' : inbox'[k].waits = TRUE => job[inbox'[k].job].kind = "site.restore_clone"
      BY <1>3, <1>5, <1>6 DEF HostInv, RequestsInv
    <2> QED BY <1>3, <2>1, <2>2 DEF RequestsMove, HostInv, RequestsInv
  <1>13. HostMoves
    BY <1>1, <1>7, <1>9 DEF HostMoves, Still
  <1>14. \A r \in reservation : ChangeTells(r.job, r.site)'
    <2> SUFFICES ASSUME NEW r \in reservation PROVE ChangeTells(r.job, r.site)'
      OBVIOUS
    <2>1. r.site \in Sites /\ job[r.job].kind = "site.domain_change"
      BY Known
    <2>2. host'[r.site] = host[r.site]
      BY <1>3, <1>8, <1>9, <2>1
    <2> QED BY <1>3, <2>2 DEF HostInv, ChangesInv, ChangeTells
  <1>15. DeletesMove
    <2> SUFFICES ASSUME NEW j \in JobId, Deletes(j)
                 PROVE  /\ journal'[j] \in {"none", "removing", "done"}
                        /\ journal'[j] = "done" => host'[job[j].site] = Gone
                        /\ journal'[j] # "none" =>
                             \A k \in DOMAIN inbox' : Acts(inbox'[k], job[j].site) => inbox'[k].job = j
      BY DEF DeletesMove
    <2>1. /\ journal[j] \in {"none", "removing", "done"}
          /\ journal[j] = "done" => host[job[j].site] = Gone
          /\ \A k \in DOMAIN inbox : journal[j] # "none" => (Acts(inbox[k], job[j].site) => inbox[k].job = j)
      BY DEF HostInv, DeletesInv
    <2>2. job[j].site \in Sites /\ j # n
      BY <1>3, Known, KindsAssumption, KindFacts DEF Deletes, NoJob
    <2>3. journal[j] # "none" => host'[job[j].site] = host[job[j].site]
      BY <1>8, <1>9, <2>2
    <2>4. \A k \in DOMAIN inbox', t \in Sites : Acts(inbox'[k], t) => Acts(inbox[k], t)
      BY <1>5, <1>10 DEF Acts, SameWork
    <2> QED BY <1>3, <1>5, <1>10, <2>1, <2>2, <2>3, <2>4
  <1>16. ClonesMove
    <2>1. \A j \in JobId : Cloning(j) => job[j].site \in Sites
      BY Known, KindsAssumption, KindFacts DEF Cloning, NoJob
    <2>2. \A j \in JobId : Cloning(j) /\ j # n => host'[job[j].site] = host[job[j].site]
      BY <1>8, <1>9, <2>1
    <2>3. \A j \in JobId : Cloning(j) /\ journal'[j] = "done" =>
            host'[job[j].site] = Up(site[job[j].site].domain)
      BY <1>3, <2>2 DEF HostInv, ClonesInv
    <2>4. ASSUME NEW k \in DOMAIN inbox', Cloning(inbox'[k].job), inbox'[k].waits = TRUE
          PROVE  host'[job[inbox'[k].job].site] = Up(site[job[inbox'[k].job].site].domain)
      <3>1. CASE inbox'[k].job = n
        BY <1>1, <1>9, <3>1
      <3>2. CASE inbox'[k].job # n
        <4>1. inbox'[k] = inbox[k] /\ k \in DOMAIN inbox /\ inbox[k].job \in JobId
          BY <1>4, <1>5, <1>6, <3>2
        <4> QED BY <2>2, <2>4, <3>2, <4>1 DEF HostInv, ClonesInv
      <3> QED BY <3>1, <3>2
    <2> QED BY <2>3, <2>4 DEF ClonesMove
  <1>17. AnswersInv'
    <2> SUFFICES ASSUME NEW w \in Workers, worker'[w].pc = "answered"
                 PROVE  AnswerTrue(worker[w].job, worker[w].reply)'
      BY DEF AnswersInv
    <2>1. \A t : Still(t) => Still(t)'
      BY <1>3, <1>11, StillStill
    <2>2. AnswerTrue(worker[w].job, worker[w].reply) /\ worker[w].job \in 1..lastJob
      BY <1>3, Known DEF HostInv, AnswersInv, Busy
    <2>3. \A t \in Sites : Still(t) => host'[t] = host[t]
      BY <1>13 DEF HostMoves
    <2>4. job[worker[w].job].site \in Sites
      BY <2>2, Known
    <2> QED BY <1>3, <2>1, <2>2, <2>3, <2>4 DEF AnswerTrue, Deletes
  <1> QED BY <1>3, <1>11, <1>12, <1>13, <1>14, <1>15, <1>16, <1>17, RequestsKeepHost

\* A step that changes nothing.
LEMMA StutterKeepsHost == HostInv /\ UNCHANGED vars => HostInv'
  BY DEF vars, store, wire, HostInv, RequestsInv, SettledInv, ChangesInv, DeletesInv, ClonesInv, AnswersInv,
         Acts, Still, ChangeTells, Deletes, Cloning, Pending, AnswerTrue

\* The invariant holds at the start ...
LEMMA HostInit == Init => HostInv
  <1> SUFFICES ASSUME Init PROVE HostInv
    OBVIOUS
  <1>1. /\ tomb = {} /\ reservation = {} /\ lastJob = 0 /\ inbox = <<>>
        /\ \A j \in JobId : job[j] = NoJob /\ journal[j] = "none"
        /\ \A w \in Workers : worker[w].pc = "down"
        /\ \A s \in Sites : site[s].status = "active" => host[s] = Up(site[s].domain)
    BY DEF Init, Down, NoRow
  <1>2. DOMAIN inbox = {}
    <2>1. DOMAIN <<>> = {}
      OBVIOUS
    <2> QED BY <1>1, <2>1
  <1>3. \A j \in JobId : job[j].kind \notin StatusKinds
    BY <1>1, KindsAssumption, KindFacts DEF NoJob
  <1>4. RequestsInv
    BY <1>1, <1>2 DEF RequestsInv, Busy
  <1>5. SettledInv
    BY <1>1, <1>2, <1>3 DEF SettledInv, Still
  <1>6. ChangesInv
    BY <1>1, <1>2 DEF ChangesInv
  <1>7. \A j \in JobId : ~Deletes(j) /\ ~Cloning(j)
    BY <1>3, KindFacts DEF Deletes, Cloning
  <1>8. DeletesInv /\ ClonesInv
    BY <1>2, <1>7 DEF DeletesInv, ClonesInv
  <1>9. AnswersInv
    BY <1>1 DEF AnswersInv
  <1> QED BY <1>4, <1>5, <1>6, <1>8, <1>9 DEF HostInv

\* ... and every step of the panel, its one worker and the broker keeps it.
LEMMA HostStep == Ordered /\ OneWorker /\ StoreInv /\ HostInv /\ [Next]_vars => HostInv'
  <1> SUFFICES ASSUME Ordered, OneWorker, StoreInv, HostInv, [Next]_vars PROVE HostInv'
    OBVIOUS
  <1>1. StoreInv'
    BY StepIsSafe
  <1>2. CASE Handlers
    BY <1>1, <1>2, HandlersKeepHost
  <1>3. CASE \E w \in Workers : WorkerStep(w)
    BY <1>1, <1>3, WorkerKeepsHost
  <1>4. CASE BrokerStep
    BY <1>4, ExecuteKeepsHost, CloneKeepsHost DEF BrokerStep
  <1>5. CASE Faults
    BY <1>1, <1>5, FaultsKeepHost
  <1>6. CASE UNCHANGED vars
    BY <1>6, StutterKeepsHost
  <1> QED BY <1>2, <1>3, <1>4, <1>5, <1>6 DEF Next

-----------------------------------------------------------------------------
\* What the panel knows of the host is true, as long as one worker records the
\* answers and the host's locks are granted in order of arrival.
THEOREM HostIsKnown ==
  ASSUME Ordered, OneWorker
  PROVE  Spec => [](StoreInv /\ HostInv)
  <1>1. Init => StoreInv /\ HostInv
    BY InitIsSafe, HostInit
  <1>2. StoreInv /\ HostInv /\ [Next]_vars => (StoreInv /\ HostInv)'
    BY StepIsSafe, HostStep
  <1> QED BY <1>1, <1>2, PTL DEF Spec

\* A site the panel calls active is served by the host under exactly the domain
\* the panel shows, whichever answers of the broker were lost or repeated.
THEOREM ActiveStaysServed ==
  ASSUME Ordered, OneWorker
  PROVE  Spec => []ActiveIsServed
  <1>1. HostInv => ActiveIsServed
    BY DEF HostInv, SettledInv, ActiveIsServed
  <1> QED BY <1>1, HostIsKnown, PTL

\* After FinishSiteDelete has recorded a deletion, no request on its way brings
\* the site back and no handler uses its identifier again.
THEOREM DeletedSitesStayDeleted ==
  ASSUME Ordered, OneWorker
  PROVE  Spec => []DeletedStaysDeleted
  <1>1. HostInv => DeletedStaysDeleted
    BY DEF HostInv, SettledInv, DeletedStaysDeleted
  <1> QED BY <1>1, HostIsKnown, PTL
-----------------------------------------------------------------------------
(***************************************************************************)
(* The queue, while every job is of a kind that is replayed until its      *)
(* answer is known.  Jobs are then claimed and finished in their order of  *)
(* creation: nothing older is pending for the site of a request or of the  *)
(* worker's job, and no request of a job outlives its answer.              *)
(***************************************************************************)
Replayed == Kinds \subseteq ReplayKinds
Deleting == {"deleting", "delete_failed"}
Holding  == Busy \cup {"selected"}

\* The job is the oldest pending one of its site.
Oldest(j) == \A k \in JobId : Pending(k) /\ job[k].site = job[j].site => j <= k

\* What runs is what the worker holds; what it has been told leaves no request.
RunsInv ==
    /\ \A j \in 1..lastJob : job[j].kind \in Kinds
    /\ \A w \in Workers, j \in JobId : job[j].status = "running" /\ worker[w].pc # "down" =>
         worker[w].pc \in Busy /\ worker[w].job = j
    /\ \A w \in Workers : worker[w].pc \in Holding => Pending(worker[w].job) /\ Oldest(worker[w].job)
    /\ \A i \in DOMAIN inbox : Pending(inbox[i].job) /\ Oldest(inbox[i].job)
    /\ \A w \in Workers : worker[w].pc = "answered" /\ worker[w].reply \notin {"unknown", "unavailable"} =>
         \A i \in DOMAIN inbox : inbox[i].job # worker[w].job

\* The rows the worker reads before it calls are there as the job expects them.
OwedInv ==
    /\ \A j \in JobId : Deletes(j) /\ site[job[j].site].status \in Deleting =>
         site[job[j].site].domain = job[j].domain
    /\ \A j \in JobId : Pending(j) /\ job[j].kind = "site.backup" => site[job[j].site].status # "absent"

QueueInv == RunsInv /\ OwedInv

\* What every step may rely on.
LEMMA QueueKnown ==
  ASSUME StoreInv, QueueInv, Replayed
  PROVE  /\ \A j \in 1..lastJob : /\ job[j].kind \in {"site.domain_change", "site.delete", "site.backup"}
                                  /\ job[j].site \in Sites /\ job[j].source = None /\ j \in JobId
         /\ \A j \in JobId : Pending(j) => j \in 1..lastJob
         /\ \A j \in 1..lastJob, s \in Sites : Touches(j, s) <=> job[j].site = s
         /\ \A w \in Workers : worker[w].pc \in Holding => worker[w].job \in 1..lastJob
  <1>1. \A j \in 1..lastJob : /\ job[j].kind \in {"site.domain_change", "site.delete", "site.backup"}
                              /\ job[j].site \in Sites /\ j \in JobId
    BY Known DEF QueueInv, RunsInv, Replayed, ReplayKinds
  <1>2. ASSUME NEW j \in 1..lastJob PROVE job[j].source = None
    <2>1. j \in JobId /\ j <= lastJob
      BY <1>1, Known
    <2>2. job[j].kind # "site.restore_clone"
      BY <1>1
    <2> QED BY <2>1, <2>2 DEF StoreInv, RowsWellFormed
  <1>3. \A j \in JobId : Pending(j) => j \in 1..lastJob
    BY Known DEF Pending, NoJob
  <1>4. \A j \in 1..lastJob, s \in Sites : Touches(j, s) <=> job[j].site = s
    BY <1>2, NoneAssumption DEF Touches
  <1>5. \A w \in Workers : worker[w].pc \in Holding => worker[w].job \in 1..lastJob
    BY DEF StoreInv, WorkHasItsRow, Holding, Busy
  <1> QED BY <1>1, <1>2, <1>3, <1>4, <1>5

\* Handlers: rows are added, or put back in the queue when their site is idle.
LEMMA QueueGrows ==
  ASSUME StoreInv, StoreInv', QueueInv, Replayed, KeepsRows, UNCHANGED <<worker, inbox>>,
         \A j \in 1..lastJob :
           \/ job'[j].status = job[j].status
           \/ job[j].kind # "site.backup" /\ job'[j].status = "queued" /\ Idle(job[j].site),
         \A j \in JobId : lastJob < j =>
           \/ job'[j] = NoJob
           \/ /\ job'[j].kind \in Kinds /\ job'[j].status = "queued"
              /\ job'[j].kind = "site.delete" => site'[job'[j].site].domain = job'[j].domain
              /\ job'[j].kind = "site.backup" => site'[job'[j].site].status # "absent",
         \A t \in Sites :
           /\ site'[t].domain = site[t].domain
           /\ site'[t].status = "absent" => site[t].status = "absent"
           /\ site'[t].status \in Deleting =>
                site[t].status \in Deleting \/ \A j \in 1..lastJob : Deletes(j) => job[j].site # t
  PROVE  QueueInv'
  <1>1. /\ \A j \in 1..lastJob : /\ job[j].kind \in {"site.domain_change", "site.delete", "site.backup"}
                                 /\ job[j].site \in Sites /\ job[j].source = None /\ j \in JobId
        /\ \A j \in JobId : Pending(j) => j \in 1..lastJob
        /\ \A j \in 1..lastJob, s \in Sites : Touches(j, s) <=> job[j].site = s
        /\ \A w \in Workers : worker[w].pc \in Holding => worker[w].job \in 1..lastJob
    BY QueueKnown
  <1>2. \A j \in 1..lastJob : /\ job'[j].kind = job[j].kind /\ job'[j].site = job[j].site
                              /\ job'[j].domain = job[j].domain
    BY DEF KeepsRows
  <1>3. \A j \in JobId : j \in 1..lastJob \/ lastJob < j
    BY Known
  <1>4. \A j \in 1..lastJob : Pending(j) => Pending(j)'
    BY DEF Pending
  <1>5. ASSUME NEW j \in 1..lastJob, Pending(j), Oldest(j) PROVE Oldest(j)'
    <2> SUFFICES ASSUME NEW k \in JobId, Pending(k)', job'[k].site = job'[j].site PROVE j <= k
      BY DEF Oldest
    <2>1. CASE lastJob < k
      BY <2>1, Known
    <2>2. CASE k \in 1..lastJob
      <3>1. job[k].site = job[j].site
        BY <1>2, <2>2
      <3>2. Pending(k)
        <4>1. CASE job'[k].status = job[k].status
          BY <4>1 DEF Pending
        <4>2. CASE Idle(job[k].site)
          BY <1>1, <1>5, <3>1, <4>2 DEF Idle
        <4> QED BY <2>2, <4>1, <4>2
      <3> QED BY <1>5, <3>1, <3>2 DEF Oldest
    <2> QED BY <1>3, <2>1, <2>2
  <1>6. RunsInv'
    <2>1. \A j \in 1..lastJob' : job'[j].kind \in Kinds
      <3> SUFFICES ASSUME NEW j \in 1..lastJob' PROVE job'[j].kind \in Kinds
        OBVIOUS
      <3>1. j \in JobId /\ job'[j].status # "absent"
        BY KnownAfter DEF StoreInv, RowsWellFormed, JobId
      <3> QED BY <1>2, <1>3, <3>1 DEF QueueInv, RunsInv, NoJob
    <2>2. \A j \in JobId : job'[j].status = "running" => job[j].status = "running"
      BY <1>3 DEF NoJob
    <2>3. \A w \in Workers : worker[w].pc \in Holding => Pending(worker[w].job)' /\ Oldest(worker[w].job)'
      <3> SUFFICES ASSUME NEW w \in Workers, worker[w].pc \in Holding
                   PROVE  Pending(worker[w].job)' /\ Oldest(worker[w].job)'
        OBVIOUS
      <3>1. PICK j \in 1..lastJob : j = worker[w].job
        BY <1>1
      <3>2. Pending(j) /\ Oldest(j)
        BY <3>1 DEF QueueInv, RunsInv
      <3>3. Pending(j)' /\ Oldest(j)'
        BY <1>4, <1>5, <3>2
      <3> QED BY <3>1, <3>3 DEF Pending, Oldest
    <2>4. \A i \in DOMAIN inbox : Pending(inbox[i].job)' /\ Oldest(inbox[i].job)'
      <3> SUFFICES ASSUME NEW i \in DOMAIN inbox PROVE Pending(inbox[i].job)' /\ Oldest(inbox[i].job)'
        OBVIOUS
      <3>1. PICK j \in 1..lastJob : j = inbox[i].job
        BY Known
      <3>2. Pending(j) /\ Oldest(j)
        BY <3>1 DEF QueueInv, RunsInv
      <3>3. Pending(j)' /\ Oldest(j)'
        BY <1>4, <1>5, <3>2
      <3> QED BY <3>1, <3>3 DEF Pending, Oldest
    <2> QED BY <2>1, <2>2, <2>3, <2>4 DEF QueueInv, RunsInv, Pending, Oldest
  <1>7. OwedInv'
    <2>1. ASSUME NEW j \in JobId, Deletes(j)', site'[job'[j].site].status \in Deleting
          PROVE  site'[job'[j].site].domain = job'[j].domain
      <3>1. CASE j \in 1..lastJob
        <4>1. Deletes(j) /\ job'[j].site = job[j].site /\ job'[j].domain = job[j].domain /\ job[j].site \in Sites
          BY <1>1, <1>2, <2>1, <3>1 DEF Deletes
        <4>2. site[job[j].site].status \in Deleting
          BY <2>1, <3>1, <4>1
        <4> QED BY <4>1, <4>2 DEF QueueInv, OwedInv
      <3>2. CASE lastJob < j
        BY <2>1, <3>2, KindsAssumption, KindFacts DEF Deletes, NoJob
      <3> QED BY <1>3, <3>1, <3>2
    <2>2. ASSUME NEW j \in JobId, Pending(j)', job'[j].kind = "site.backup"
          PROVE  site'[job'[j].site].status # "absent"
      <3>1. CASE j \in 1..lastJob
        <4>1. job[j].kind = "site.backup" /\ job'[j].site = job[j].site /\ job[j].site \in Sites
          BY <1>1, <1>2, <2>2, <3>1
        <4>2. Pending(j)
          BY <2>2, <3>1, <4>1 DEF Pending
        <4> QED BY <4>1, <4>2 DEF QueueInv, OwedInv
      <3>2. CASE lastJob < j
        BY <2>2, <3>2 DEF Pending, NoJob
      <3> QED BY <1>3, <3>1, <3>2
    <2> QED BY <2>1, <2>2 DEF OwedInv
  <1> QED BY <1>6, <1>7 DEF QueueInv
\* A new row at the end of the queue.
LEMMA InsertKeepsQueue ==
  ASSUME StoreInv, StoreInv', QueueInv, Replayed, NEW k \in {"site.domain_change", "site.delete", "site.backup"},
         NEW s \in Sites, NEW d \in Domains \cup {None}, InsertJob(k, s, None, d), UNCHANGED <<worker, inbox>>,
         k = "site.delete" => site'[s].domain = d,
         k = "site.backup" => site'[s].status # "absent",
         \A t \in Sites :
           /\ site'[t].domain = site[t].domain
           /\ site'[t].status = "absent" => site[t].status = "absent"
           /\ site'[t].status \in Deleting =>
                site[t].status \in Deleting \/ \A j \in 1..lastJob : Deletes(j) => job[j].site # t
  PROVE  QueueInv'
  <1>0. k \in JobKinds /\ k # "site.restore_clone" /\ None \in Sites \cup {None} /\ k \in Kinds
    BY KindFacts DEF InsertJob
  <1>1. PICK n \in JobId : n = lastJob + 1
    BY <1>0, Inserted
  <1>2. /\ KeepsRows /\ job'[n].kind = k /\ job'[n].site = s /\ job'[n].domain = d /\ job'[n].status = "queued"
        /\ \A j \in JobId : j # n => job'[j] = job[j]
        /\ \A j \in JobId : lastJob < j => j = n \/ job'[j] = NoJob
    BY <1>0, <1>1, Inserted
  <1>3. \A j \in 1..lastJob : job'[j].status = job[j].status
    <2>1. \A j \in 1..lastJob : j \in JobId /\ j # n
      BY <1>1, Known
    <2> QED BY <1>2, <2>1
  <1>4. \A j \in JobId : lastJob < j =>
           \/ job'[j] = NoJob
           \/ /\ job'[j].kind \in Kinds /\ job'[j].status = "queued"
              /\ job'[j].kind = "site.delete" => site'[job'[j].site].domain = job'[j].domain
              /\ job'[j].kind = "site.backup" => site'[job'[j].site].status # "absent"
    <2> SUFFICES ASSUME NEW j \in JobId, lastJob < j, job'[j] # NoJob
                 PROVE  /\ job'[j].kind \in Kinds /\ job'[j].status = "queued"
                        /\ job'[j].kind = "site.delete" => site'[job'[j].site].domain = job'[j].domain
                        /\ job'[j].kind = "site.backup" => site'[job'[j].site].status # "absent"
      OBVIOUS
    <2>1. j = n
      BY <1>2
    <2> QED BY <1>0, <1>2, <2>1
  <1> QED BY <1>2, <1>3, <1>4, QueueGrows

\* A failed change or deletion that is put back, when nothing else is pending for its site.
LEMMA RetryKeepsQueue ==
  ASSUME StoreInv, StoreInv', QueueInv, Replayed, NEW s \in Sites, NEW k \in LifecycleKinds, NEW failed,
         RetryFailedLifecycleJob(s, k, failed),
         failed = IF k = "site.delete" THEN "delete_failed" ELSE "domain_change_failed"
  PROVE  QueueInv'
  <1>1. PICK n \in JobId : /\ job[n].kind = k /\ job[n].site = s
                           /\ job' = [job EXCEPT ![n].status = "queued"]
    BY DEF RetryFailedLifecycleJob
  <1>2. site \in [Sites -> SiteRow]
    BY DEF StoreInv, TypeOK
  <1>3. /\ site[s].status = failed /\ site' = [site EXCEPT ![s].status = Transit[k]] /\ Idle(s)
        /\ UNCHANGED <<lastJob, worker, inbox>>
    BY DEF RetryFailedLifecycleJob, SetStatus, Elsewhere, wire
  <1>4. /\ KeepsRows /\ job'[n].status = "queued" /\ \A j \in JobId : j # n => job'[j] = job[j]
        /\ job'[n].kind = k
    BY <1>1, <1>3, OneRowMoves
  <1>5. n <= lastJob
    BY <1>1, Known, KindsAssumption, KindFacts DEF NoJob, LifecycleKinds
  <1>6. \A t \in Sites : /\ site'[t].domain = site[t].domain
                         /\ site'[t].status = IF t = s THEN Transit[k] ELSE site[t].status
    BY <1>2, <1>3 DEF SiteRow
  <1>7. \A j \in 1..lastJob :
           \/ job'[j].status = job[j].status
           \/ job[j].kind # "site.backup" /\ job'[j].status = "queued" /\ Idle(job[j].site)
    BY <1>1, <1>3, <1>4, Known DEF LifecycleKinds
  <1>8. \A j \in JobId : lastJob < j => job'[j] = NoJob
    BY <1>4, <1>5, Known
  <1>9. \A t \in Sites :
          /\ site'[t].domain = site[t].domain
          /\ site'[t].status = "absent" => site[t].status = "absent"
          /\ site'[t].status \in Deleting => site[t].status \in Deleting
    BY <1>3, <1>6, KindFacts DEF Deleting, LifecycleKinds
  <1> QED BY <1>3, <1>4, <1>7, <1>8, <1>9, QueueGrows

\* The handlers that such an instance has: the others enqueue kinds of their own.
LEMMA HandlersKeepQueue ==
  ASSUME StoreInv, StoreInv', HostInv, QueueInv, Replayed, Handlers
  PROVE  QueueInv'
  <1>1. PICK s \in Sites :
          \/ EnqueueSiteDisable(s) \/ EnqueueSiteEnable(s) \/ EnqueueSiteProvisionRetry(s)
          \/ EnqueueSiteDelete(s) \/ RetryDomainChange(s) \/ RetrySiteDelete(s)
          \/ EnqueueSiteBackup(s) \/ ReadSnippetSite(s) \/ SetSiteSnippets(s)
          \/ \E d \in Domains :
               \/ CreateSite(s, d) \/ EnqueueDomainChange(s, d)
               \/ \E src \in Sites : EnqueueRestoreClone(src, s, d)
    BY DEF Handlers
  <1>2. site \in [Sites -> SiteRow]
    BY DEF StoreInv, TypeOK
  <1>3. \A st : SetStatus(s, st) => /\ \A t \in Sites : t # s => site'[t] = site[t]
                                    /\ site'[s].domain = site[s].domain /\ site'[s].status = st
    BY <1>2 DEF SetStatus, SiteRow
  <1>4. ~EnqueueSiteDisable(s) /\ ~EnqueueSiteEnable(s) /\ ~EnqueueSiteProvisionRetry(s) /\ ~ReadSnippetSite(s)
    BY DEF Replayed, ReplayKinds, EnqueueSiteDisable, EnqueueSiteEnable, EnqueueSiteProvisionRetry,
           EnqueueSiteTransition, InsertJob, ReadSnippetSite
  <1>5. \A d \in Domains : ~CreateSite(s, d) /\ \A src \in Sites : ~EnqueueRestoreClone(src, s, d)
    BY DEF Replayed, ReplayKinds, CreateSite, EnqueueRestoreClone, InsertJob
  <1>6. CASE EnqueueSiteDelete(s)
    <2>1. /\ SetStatus(s, "deleting") /\ InsertJob("site.delete", s, None, site[s].domain)
          /\ site[s].status \notin Deleting \cup {"absent"} /\ site[s].domain \in Domains \cup {None}
          /\ UNCHANGED <<tomb, worker, inbox>>
      BY <1>2, <1>6 DEF EnqueueSiteDelete, Elsewhere, wire, Deleting, SiteRow
    <2>2. \A j \in 1..lastJob : Deletes(j) => job[j].site # s
      BY <2>1, Known DEF HostInv, DeletesInv, SettledInv, Deleting, NoRow
    <2> QED BY <1>3, <2>1, <2>2, InsertKeepsQueue
  <1>7. CASE RetryDomainChange(s)
    BY <1>7, RetryKeepsQueue DEF RetryDomainChange, LifecycleKinds
  <1>8. CASE RetrySiteDelete(s)
    BY <1>8, RetryKeepsQueue DEF RetrySiteDelete, LifecycleKinds
  <1>9. CASE EnqueueSiteBackup(s)
    <2>1. /\ InsertJob("site.backup", s, None, None) /\ site[s].status = "active"
          /\ UNCHANGED <<site, worker, inbox>>
      BY <1>9 DEF EnqueueSiteBackup, Elsewhere, wire
    <2> QED BY <2>1, InsertKeepsQueue
  <1>10. ASSUME NEW d \in Domains, EnqueueDomainChange(s, d) PROVE QueueInv'
    <2>1. /\ SetStatus(s, "domain_changing") /\ InsertJob("site.domain_change", s, None, d)
          /\ UNCHANGED <<worker, inbox>>
      BY <1>10 DEF EnqueueDomainChange, Elsewhere, wire
    <2>2. "domain_changing" \notin Deleting \cup {"absent"}
      BY DEF Deleting
    <2> QED BY <1>3, <2>1, <2>2, InsertKeepsQueue
  <1>11. CASE SetSiteSnippets(s)
    <2>1. ~InsertJob("site.config_apply", s, None, None)
      BY DEF Replayed, ReplayKinds, InsertJob
    <2>2. UNCHANGED <<site, job, lastJob, worker, inbox>>
      BY <1>11, <2>1 DEF SetSiteSnippets, wire
    <2>3. KeepsRows
      BY <2>2, Known DEF KeepsRows
    <2> QED BY <2>2, <2>3, QueueGrows, Known
  <1> QED BY <1>1, <1>4, <1>5, <1>6, <1>7, <1>8, <1>9, <1>10, <1>11

\* Steps of the worker, the broker and the connection, which finish nothing.
LEMMA QueueWaits ==
  ASSUME StoreInv, QueueInv, Replayed, KeepsRows, UNCHANGED <<site, lastJob>>,
         \A j \in JobId : lastJob < j => job'[j] = job[j],
         \A j \in JobId : Pending(j)' <=> Pending(j),
         \A w \in Workers, j \in JobId : job'[j].status = "running" /\ worker'[w].pc # "down" =>
           worker'[w].pc \in Busy /\ worker'[w].job = j,
         \A w \in Workers : worker'[w].pc \in Holding =>
           worker'[w].job \in 1..lastJob /\ Pending(worker'[w].job) /\ Oldest(worker'[w].job),
         \A i \in DOMAIN inbox' :
           /\ inbox'[i].job \in 1..lastJob
           /\ \/ \E k \in DOMAIN inbox : inbox'[i].job = inbox[k].job
              \/ \E w \in Workers : worker[w].pc \in Holding /\ inbox'[i].job = worker[w].job,
         \A w \in Workers : worker'[w].pc = "answered" /\ worker'[w].reply \notin {"unknown", "unavailable"} =>
           \A i \in DOMAIN inbox' : inbox'[i].job # worker'[w].job
  PROVE  QueueInv'
  <1>1. \A j \in 1..lastJob : /\ job'[j].kind = job[j].kind /\ job'[j].site = job[j].site
                              /\ job'[j].domain = job[j].domain /\ j \in JobId
    BY Known DEF KeepsRows
  <1>2. \A j \in JobId : j \in 1..lastJob \/ lastJob < j
    BY Known
  <1>3. \A j \in JobId : job'[j].kind = job[j].kind /\ job'[j].site = job[j].site /\ job'[j].domain = job[j].domain
    BY <1>1, <1>2
  <1>4. \A j \in 1..lastJob : Oldest(j) => Oldest(j)'
    BY <1>1, <1>3 DEF Oldest
  <1>5. \A i \in DOMAIN inbox' : Pending(inbox'[i].job) /\ Oldest(inbox'[i].job)
    BY DEF QueueInv, RunsInv
  <1>6. ASSUME NEW w \in Workers, worker'[w].pc \in Holding
        PROVE  Pending(worker[w].job)' /\ Oldest(worker[w].job)'
    <2>1. PICK j \in 1..lastJob : j = worker'[w].job
      BY <1>6
    <2>2. Pending(j)' /\ Oldest(j)'
      BY <1>1, <1>4, <1>6, <2>1
    <2> QED BY <2>1, <2>2 DEF Pending, Oldest
  <1>7. ASSUME NEW i \in DOMAIN inbox' PROVE Pending(inbox[i].job)' /\ Oldest(inbox[i].job)'
    <2>1. PICK j \in 1..lastJob : j = inbox'[i].job
      BY <1>7
    <2>2. Pending(j)' /\ Oldest(j)'
      BY <1>1, <1>4, <1>5, <2>1
    <2> QED BY <2>1, <2>2 DEF Pending, Oldest
  <1>8. RunsInv'
    <2>1. \A j \in 1..lastJob' : job'[j].kind \in Kinds
      BY <1>1 DEF QueueInv, RunsInv
    <2> QED BY <1>6, <1>7, <2>1 DEF RunsInv
  <1>9. OwedInv'
    <2>1. \A j \in JobId : Deletes(j)' <=> Deletes(j)
      BY <1>3 DEF Deletes
    <2> QED BY <1>3, <2>1 DEF QueueInv, OwedInv
  <1> QED BY <1>8, <1>9 DEF QueueInv
\* The rows the worker has read are always as its job expects them: no call is
\* refused before it is sent.
LEMMA CallsAreAllowed ==
  ASSUME StoreInv, HostInv, QueueInv, Replayed, NEW w \in Workers, worker[w].pc = "claimed"
  PROVE  CallAllowed(worker[w].job)
  <1>1. PICK n \in 1..lastJob : n = worker[w].job
    BY Known DEF Busy
  <1>2. n \in JobId /\ job[n].status = "running" /\ job[n].site \in Sites
        /\ job[n].kind \in {"site.domain_change", "site.delete", "site.backup"}
    BY <1>1, QueueKnown DEF HostInv, RequestsInv, Busy
  <1>3. CASE job[n].kind = "site.domain_change"
    <2>1. site[job[n].site].status = "domain_changing"
      BY <1>2, <1>3, OwnStatus, KindFacts DEF Pending
    <2> QED BY <1>1, <1>3, <2>1 DEF CallAllowed
  <1>4. CASE job[n].kind = "site.delete"
    <2>1. site[job[n].site].status = "deleting"
      BY <1>2, <1>4, OwnStatus, KindFacts DEF Pending
    <2>2. site[job[n].site].domain = job[n].domain
      BY <1>2, <1>4, <2>1 DEF QueueInv, OwedInv, Deletes, Deleting
    <2> QED BY <1>1, <1>4, <2>1, <2>2 DEF CallAllowed
  <1>5. CASE job[n].kind = "site.backup"
    <2>1. site[job[n].site].status # "absent"
      BY <1>2, <1>5 DEF QueueInv, OwedInv, Pending
    <2> QED BY <1>1, <1>5, <2>1 DEF CallAllowed
  <1> QED BY <1>2, <1>3, <1>4, <1>5

\* The worker records an answer: nothing of the job is left at the broker.
LEMMA QueueShrinks ==
  ASSUME StoreInv, HostInv, QueueInv, Replayed, OneWorker, NEW w \in Workers, NEW kinds, Finishing(w, kinds),
         NEW c \in {"succeeded", "failed"}, job' = [job EXCEPT ![worker[w].job].status = c], OwedInv'
  PROVE  QueueInv'
  <1>1. PICK n \in 1..lastJob : n = worker[w].job
    BY FinishingFacts
  <1>2. /\ n \in JobId /\ job[n].status = "running" /\ job[n].kind \in kinds
        /\ UNCHANGED <<lastJob, inbox>> /\ \A v \in Workers : worker'[v].pc = "idle"
    BY <1>1, FinishingFacts
  <1>3. job[n].kind \in ReplayKinds /\ worker[w].pc = "answered"
    BY <1>1, <1>2, QueueKnown DEF Finishing, ReplayKinds
  <1>4. worker[w].reply \notin {"unknown", "unavailable"}
    BY <1>1, <1>2, <1>3 DEF Finishing
  <1>5. \A i \in DOMAIN inbox : inbox[i].job # n
    BY <1>1, <1>3, <1>4 DEF QueueInv, RunsInv
  <1>6. KeepsRows /\ job'[n].status = c /\ \A j \in JobId : j # n => job'[j] = job[j]
    BY <1>1, <1>2, OneRowMoves
  <1>7. \A j \in JobId : job'[j].site = job[j].site /\ (Pending(j)' => Pending(j) /\ j # n)
    BY <1>1, <1>2, <1>6, OneRowMoves DEF Pending
  <1>8. \A i \in DOMAIN inbox : Pending(inbox[i].job)' /\ Oldest(inbox[i].job)'
    <2> SUFFICES ASSUME NEW i \in DOMAIN inbox PROVE Pending(inbox[i].job)' /\ Oldest(inbox[i].job)'
      OBVIOUS
    <2>1. PICK j \in JobId : j = inbox[i].job /\ j # n
      BY <1>5, Known
    <2>2. Pending(j) /\ Oldest(j)
      BY <2>1 DEF QueueInv, RunsInv
    <2>3. Pending(j)' /\ Oldest(j)'
      BY <1>6, <1>7, <2>1, <2>2 DEF Pending, Oldest
    <2> QED BY <1>2, <2>1, <2>3 DEF Pending, Oldest
  <1>9. \A v \in Workers, j \in JobId : job'[j].status = "running" => FALSE
    <2>1. \A j \in JobId : job[j].status = "running" => j = n
      BY <1>1, <1>3 DEF QueueInv, RunsInv
    <2> QED BY <1>6, <2>1
  <1>10. \A j \in 1..lastJob' : job'[j].kind \in Kinds
    BY <1>2, <1>6 DEF KeepsRows, QueueInv, RunsInv
  <1>11. RunsInv'
    BY <1>2, <1>8, <1>9, <1>10 DEF RunsInv, Holding, Busy, Pending, Oldest
  <1> QED BY <1>11 DEF QueueInv

LEMMA ChangeKeepsQueue ==
  ASSUME StoreInv, HostInv, QueueInv, Replayed, OneWorker, NEW w \in Workers, FinishDomainChange(w)
  PROVE  QueueInv'
  <1>1. PICK n, s, r : ChangeDone(n, s, r) /\ n = worker[w].job
    BY ChangeFinishes
  <1>2. PICK c \in {"succeeded", "failed"} : job' = [job EXCEPT ![n].status = c]
    BY <1>1 DEF ChangeDone
  <1>3. /\ n \in JobId /\ s \in Sites /\ \A t \in Sites : t # s => site'[t] = site[t]
        /\ site'[s].status \in {"active", "domain_change_failed"}
    BY <1>1 DEF ChangeDone
  <1>4. Finishing(w, {"site.domain_change"})
    BY DEF FinishDomainChange
  <1>5. UNCHANGED lastJob
    BY <1>4 DEF Finishing
  <1>6. \A j \in JobId : /\ job'[j].kind = job[j].kind /\ job'[j].site = job[j].site
                         /\ job'[j].domain = job[j].domain /\ (Pending(j)' => Pending(j))
    <2>1. job \in [JobId -> JobRow]
      BY DEF StoreInv, TypeOK
    <2> QED BY <1>2, <1>3, <2>1 DEF JobRow, Pending
  <1>7. \A j \in JobId : Deletes(j) \/ job[j].kind = "site.backup" => job[j].site \in Sites
    BY Known, KindsAssumption, KindFacts DEF Deletes, NoJob
  <1>8. OwedInv'
    BY <1>3, <1>6, <1>7 DEF QueueInv, OwedInv, Deletes, Deleting
  <1> QED BY <1>1, <1>2, <1>4, <1>8, QueueShrinks

\* A deletion that is recorded as finished.
DeleteDone(n, s, ok) ==
    /\ n \in 1..lastJob /\ n \in JobId /\ s \in Sites /\ job[n].site = s
    /\ job[n].status = "running" /\ job[n].kind = "site.delete"
    /\ site[s].status = "deleting" /\ (ok = TRUE => host[s] = Gone)
    /\ \E c \in {"succeeded", "failed"} : job' = [job EXCEPT ![n].status = c]
    /\ \A t \in Sites : t # s => site'[t] = site[t]
    /\ IF ok = TRUE THEN site'[s] = NoRow
       ELSE site'[s].status = "delete_failed" /\ site'[s].domain = site[s].domain

LEMMA DeleteFinishes ==
  ASSUME StoreInv, HostInv, QueueInv, OneWorker, NEW w \in Workers, FinishSiteDelete(w)
  PROVE  DeleteDone(worker[w].job, job[worker[w].job].site, worker[w].reply = "ok")
  <1>1. PICK n \in 1..lastJob : n = worker[w].job
    BY FinishingFacts DEF FinishSiteDelete
  <1>2. /\ n \in JobId /\ job[n].status = "running" /\ job[n].kind = "site.delete"
        /\ AnswerTrue(n, worker[w].reply)
    BY <1>1, FinishingFacts DEF FinishSiteDelete
  <1>3. PICK s \in Sites : s = job[n].site
    BY <1>1, Known
  <1>4. PICK ok \in BOOLEAN : ok = (worker[w].reply = "ok")
    OBVIOUS
  <1>5. site[s].status = "deleting"
    BY <1>2, <1>3, OwnStatus, KindFacts DEF Pending
  <1>6. site[s].domain = job[n].domain
    BY <1>2, <1>3, <1>5 DEF QueueInv, OwedInv, Deletes, Deleting
  <1>7. Close(n, ok) /\ site' = IF ok THEN [site EXCEPT ![s] = NoRow]
                                ELSE [site EXCEPT ![s].status = "delete_failed"]
    BY <1>1, <1>2, <1>3, <1>4, <1>5, <1>6 DEF FinishSiteDelete
  <1>8. ok = TRUE => host[s] = Gone
    BY <1>2, <1>3, <1>4 DEF AnswerTrue, Deletes
  <1>9. \E c \in {"succeeded", "failed"} : job' = [job EXCEPT ![n].status = c]
    BY <1>7 DEF Close
  <1>10. /\ \A t \in Sites : t # s => site'[t] = site[t]
         /\ IF ok = TRUE THEN site'[s] = NoRow
            ELSE site'[s].status = "delete_failed" /\ site'[s].domain = site[s].domain
    <2>1. site \in [Sites -> SiteRow]
      BY DEF StoreInv, TypeOK
    <2>2. CASE ok = TRUE
      BY <1>7, <2>1, <2>2
    <2>3. CASE ok = FALSE
      BY <1>7, <2>1, <2>3 DEF SiteRow
    <2> QED BY <2>2, <2>3
  <1>11. DeleteDone(n, s, ok)
    BY <1>2, <1>3, <1>5, <1>8, <1>9, <1>10 DEF DeleteDone
  <1> QED BY <1>1, <1>3, <1>4, <1>11

LEMMA DeleteKeepsQueue ==
  ASSUME StoreInv, HostInv, QueueInv, Replayed, OneWorker, NEW w \in Workers, FinishSiteDelete(w)
  PROVE  QueueInv'
  <1>1. PICK n, s, ok : DeleteDone(n, s, ok) /\ n = worker[w].job
    BY DeleteFinishes
  <1>2. PICK c \in {"succeeded", "failed"} : job' = [job EXCEPT ![n].status = c]
    BY <1>1 DEF DeleteDone
  <1>3. /\ n \in JobId /\ s \in Sites /\ \A t \in Sites : t # s => site'[t] = site[t]
        /\ site[s].status = "deleting"
        /\ site'[s].status \in {"absent", "delete_failed"}
        /\ site'[s].status = "delete_failed" => site'[s].domain = site[s].domain
    BY <1>1 DEF DeleteDone, NoRow
  <1>4. Finishing(w, {"site.delete"})
    BY DEF FinishSiteDelete
  <1>5. \A j \in JobId : /\ job'[j].kind = job[j].kind /\ job'[j].site = job[j].site
                         /\ job'[j].domain = job[j].domain /\ (Pending(j)' => Pending(j))
    <2>1. job \in [JobId -> JobRow]
      BY DEF StoreInv, TypeOK
    <2> QED BY <1>2, <1>3, <2>1 DEF JobRow, Pending
  <1>6. \A j \in JobId : Deletes(j) \/ job[j].kind = "site.backup" => job[j].site \in Sites
    BY Known, KindsAssumption, KindFacts DEF Deletes, NoJob
  <1>7. \A j \in JobId : Pending(j) /\ job[j].kind = "site.backup" => job[j].site # s
    BY <1>3 DEF StoreInv, LockedSitesAreQuiet, LockedStatus, Touches, LifecycleKinds
  <1>8. OwedInv'
    <2>1. ASSUME NEW j \in JobId, Deletes(j)', site'[job'[j].site].status \in Deleting
          PROVE  site'[job'[j].site].domain = job'[j].domain
      BY <1>3, <1>5, <1>6, <2>1 DEF QueueInv, OwedInv, Deletes, Deleting
    <2>2. \A j \in JobId : Pending(j)' /\ job'[j].kind = "site.backup" => site'[job'[j].site].status # "absent"
      BY <1>3, <1>5, <1>6, <1>7 DEF QueueInv, OwedInv
    <2> QED BY <2>1, <2>2 DEF OwedInv
  <1> QED BY <1>1, <1>2, <1>4, <1>8, QueueShrinks
\* The worker's other steps: it starts, takes the oldest row, calls, and puts back
\* what it knows nothing of.
LEMMA WorkerKeepsQueue ==
  ASSUME StoreInv, HostInv, QueueInv, Replayed, OneWorker, NEW w \in Workers, WorkerStep(w)
  PROVE  QueueInv'
  <1>1. /\ worker \in [Workers -> Worker] /\ job \in [JobId -> JobRow] /\ worker[w] \in Worker
        /\ 1..lastJob \subseteq JobId
    BY Known DEF StoreInv, TypeOK
  <1>2. \A v \in Workers : v = w
    BY DEF OneWorker
  <1>3. \A j \in JobId : job[j].status = "running" /\ worker[w].pc # "down" =>
          worker[w].pc \in Busy /\ worker[w].job = j
    BY DEF QueueInv, RunsInv
  <1>4. worker[w].pc \in Holding =>
          worker[w].job \in 1..lastJob /\ Pending(worker[w].job) /\ Oldest(worker[w].job)
    BY QueueKnown DEF QueueInv, RunsInv
  <1>5. \A i \in DOMAIN inbox : inbox[i].job \in 1..lastJob
    BY Known
  <1>6. ASSUME UNCHANGED <<job, lastJob>>
        PROVE  /\ KeepsRows /\ \A j \in JobId : lastJob < j => job'[j] = job[j]
               /\ \A j \in JobId : Pending(j)' <=> Pending(j)
    BY <1>6, Known DEF KeepsRows, Pending
  <1>7. CASE StartWorker(w)
    <2>1. \A x \in Workers : worker'[x].pc = "idle"
      BY <1>1, <1>7 DEF StartWorker, OneWorker, Idling
    <2>2. UNCHANGED <<site, lastJob, inbox>>
      BY <1>7 DEF StartWorker, wire
    <2>3. \A j \in JobId : job'[j] = IF job[j].status = "running" THEN [job[j] EXCEPT !.status = "queued"]
                                     ELSE job[j]
      BY <1>7 DEF StartWorker
    <2>4. \A j \in JobId : /\ job'[j].kind = job[j].kind /\ job'[j].site = job[j].site
                           /\ job'[j].source = job[j].source /\ job'[j].domain = job[j].domain
                           /\ job'[j].status # "running" /\ (Pending(j)' <=> Pending(j))
      BY <1>1, <2>3 DEF JobRow, Pending
    <2>5. KeepsRows
      BY <1>1, <2>2, <2>4, Known DEF KeepsRows
    <2>6. \A j \in JobId : lastJob < j => job'[j] = job[j]
      <3>1. \A j \in JobId : lastJob < j => job[j].status # "running"
        BY Known DEF NoJob
      <3> QED BY <2>3, <3>1
    <2> QED BY <1>5, <2>1, <2>2, <2>4, <2>5, <2>6, QueueWaits DEF Busy, Holding
  <1>8. CASE SelectJob(w)
    <2>1. PICK n \in JobId : /\ job[n].status = "queued"
                             /\ \A i \in JobId : job[i].status = "queued" => n <= i
                             /\ worker' = [worker EXCEPT ![w] = [@ EXCEPT !.pc = "selected", !.job = n]]
      BY <1>8 DEF SelectJob
    <2>2. UNCHANGED <<site, job, lastJob, inbox>> /\ worker[w].pc = "idle"
      BY <1>8 DEF SelectJob, wire, store
    <2>3. \A j \in JobId : job[j].status # "running"
      BY <1>3, <2>2 DEF Busy
    <2>4. Pending(n) /\ Oldest(n) /\ n \in 1..lastJob
      <3>1. Pending(n) /\ Oldest(n)
        BY <2>1, <2>3 DEF Pending, Oldest
      <3> QED BY <3>1, QueueKnown
    <2>5. \A x \in Workers : worker'[x].pc = "selected" /\ worker'[x].job = n
      BY <1>1, <1>2, <2>1 DEF Worker
    <2> QED BY <1>5, <1>6, <2>2, <2>3, <2>4, <2>5, QueueWaits
  <1>9. CASE ClaimJob(w)
    <2>1. UNCHANGED <<site, lastJob, inbox>> /\ worker[w].pc = "selected"
      BY <1>9 DEF ClaimJob, wire
    <2>2. PICK n \in 1..lastJob : n = worker[w].job /\ Pending(n) /\ Oldest(n)
      BY <1>4, <2>1 DEF Holding
    <2>3. \A j \in JobId : job[j].status # "running"
      BY <1>3, <2>1 DEF Busy
    <2>4. job' = [job EXCEPT ![n].status = "running"] /\ worker' = [worker EXCEPT ![w].pc = "claimed"]
      BY <1>1, <1>9, <2>2, <2>3 DEF ClaimJob, Pending
    <2>5. KeepsRows /\ job'[n].status = "running" /\ \A j \in JobId : j # n => job'[j] = job[j]
      BY <1>1, <2>1, <2>2, <2>4, OneRowMoves
    <2>6. \A x \in Workers : worker'[x].pc = "claimed" /\ worker'[x].job = n
      BY <1>1, <1>2, <2>2, <2>4 DEF Worker
    <2>7. \A j \in JobId : /\ Pending(j)' <=> Pending(j)
                           /\ lastJob < j => job'[j] = job[j]
                           /\ job'[j].status = "running" => j = n
      BY <2>2, <2>3, <2>5, Known DEF Pending
    <2> QED BY <1>5, <2>1, <2>2, <2>5, <2>6, <2>7, QueueWaits DEF Busy
  <1>10. CASE CallBroker(w)
    <2>1. UNCHANGED <<site, job, lastJob>> /\ worker[w].pc = "claimed"
      BY <1>10 DEF CallBroker, store
    <2>2. PICK n \in 1..lastJob : n = worker[w].job /\ Pending(n) /\ Oldest(n)
      BY <1>4, <2>1 DEF Holding, Busy
    <2>3. PICK q : inbox' = Append(inbox, q) /\ q.job = n
      BY <1>10, <2>2 DEF CallBroker
    <2>4. worker' = [worker EXCEPT ![w].pc = "calling"]
      BY <1>10 DEF CallBroker
    <2>5. \A x \in Workers : worker'[x].pc = "calling" /\ worker'[x].job = n
      BY <1>1, <1>2, <2>2, <2>4 DEF Worker
    <2>6. \A i \in DOMAIN inbox' : inbox'[i].job = n \/ (i \in DOMAIN inbox /\ inbox'[i].job = inbox[i].job)
      <3>1. inbox \in Seq(Sent) /\ DOMAIN inbox = 1..Len(inbox) /\ Len(inbox) \in Nat
        BY Known
      <3>2. /\ DOMAIN inbox' = 1..(Len(inbox) + 1) /\ inbox'[Len(inbox) + 1] = q
            /\ \A i \in DOMAIN inbox : inbox'[i] = inbox[i]
        BY <2>3, Known
      <3>3. PICK m \in Nat : m = Len(inbox)
        BY <3>1
      <3>4. \A i \in DOMAIN inbox' : i = m + 1 \/ i \in DOMAIN inbox
        BY <3>1, <3>2, <3>3
      <3>5. inbox'[m + 1].job = n
        BY <2>3, <3>2, <3>3
      <3>6. \A i \in DOMAIN inbox : inbox'[i].job = inbox[i].job
        BY <3>2
      <3> QED BY <3>4, <3>5, <3>6
    <2>7. worker[w].pc \in Busy /\ worker[w].pc \in Holding
      BY <2>1 DEF Busy, Holding
    <2>8. \A i \in DOMAIN inbox' :
            /\ inbox'[i].job \in 1..lastJob
            /\ \/ \E k \in DOMAIN inbox : inbox'[i].job = inbox[k].job
               \/ \E v \in Workers : worker[v].pc \in Holding /\ inbox'[i].job = worker[v].job
      BY <1>5, <2>2, <2>6, <2>7
    <2>9. \A j \in JobId : job'[j].status = "running" => j = n
      BY <1>3, <2>1, <2>2
    <2> QED BY <1>6, <2>1, <2>2, <2>5, <2>8, <2>9, QueueWaits DEF Busy
  <1>11. CASE RetryJob(w)
    <2>1. UNCHANGED <<site, lastJob, inbox>> /\ worker[w].pc = "answered"
      BY <1>11 DEF RetryJob, wire
    <2>2. PICK n \in 1..lastJob : n = worker[w].job /\ Pending(n) /\ Oldest(n)
      BY <1>4, <2>1 DEF Holding, Busy
    <2>3. job[n].status = "running"
      BY <2>1, <2>2 DEF HostInv, RequestsInv, Busy
    <2>4. job' = [job EXCEPT ![n].status = "queued"] /\ worker' = [worker EXCEPT ![w] = Idling]
      BY <1>11, <2>2, <2>3 DEF RetryJob
    <2>5. KeepsRows /\ job'[n].status = "queued" /\ \A j \in JobId : j # n => job'[j] = job[j]
      BY <1>1, <2>1, <2>2, <2>4, OneRowMoves
    <2>6. \A x \in Workers : worker'[x].pc = "idle"
      BY <1>1, <2>4 DEF OneWorker, Idling
    <2>7. \A j \in JobId : /\ Pending(j)' <=> Pending(j)
                           /\ lastJob < j => job'[j] = job[j]
                           /\ job'[j].status # "running"
      <3>1. \A j \in JobId : job[j].status = "running" => j = n
        BY <1>3, <2>1, <2>2
      <3> QED BY <2>2, <2>3, <2>5, <3>1, Known DEF Pending
    <2> QED BY <1>5, <2>1, <2>5, <2>6, <2>7, QueueWaits DEF Busy, Holding
  <1>12. CASE FinishOrdinary(w)
    <2>1. Finishing(w, JobKinds \ StatusKinds) /\ UNCHANGED site
      BY <1>12 DEF FinishOrdinary
    <2>2. PICK n \in 1..lastJob : n = worker[w].job
      BY <2>1, FinishingFacts
    <2>3. Close(n, worker[w].reply = "ok")
      BY <1>12, <2>1, <2>2, FinishingFacts DEF FinishOrdinary
    <2>4. PICK c \in {"succeeded", "failed"} : job' = [job EXCEPT ![n].status = c]
      BY <2>3 DEF Close
    <2>5. \A j \in JobId : /\ job'[j].kind = job[j].kind /\ job'[j].site = job[j].site
                           /\ job'[j].domain = job[j].domain /\ (Pending(j)' => Pending(j))
      BY <1>1, <2>4 DEF JobRow, Pending
    <2>6. OwedInv'
      BY <2>1, <2>5 DEF QueueInv, OwedInv, Deletes
    <2> QED BY <2>1, <2>2, <2>4, <2>6, QueueShrinks
  <1>13. ~FinishTransition(w)
    <2> SUFFICES ASSUME FinishTransition(w) PROVE FALSE
      OBVIOUS
    <2>1. worker[w].pc \in Busy /\ job[worker[w].job].kind \in StatusKinds \ LifecycleKinds
      BY DEF FinishTransition, Finishing, Busy
    <2>2. worker[w].job \in 1..lastJob
      BY <2>1, Known
    <2> QED BY <2>1, <2>2, QueueKnown, KindFacts DEF LifecycleKinds
  <1>14. ~RefuseCall(w)
    BY CallsAreAllowed DEF RefuseCall
  <1> QED BY <1>7, <1>8, <1>9, <1>10, <1>11, <1>12, <1>13, <1>14, ChangeKeepsQueue, DeleteKeepsQueue
          DEF WorkerStep
\* Stops and lost connections take requests and answers away, never rows.
LEMMA FaultsKeepQueue ==
  ASSUME StoreInv, HostInv, QueueInv, Replayed, OneWorker, Faults
  PROVE  QueueInv'
  <1>1. worker \in [Workers -> Worker]
    BY DEF StoreInv, TypeOK
  <1>2. UNCHANGED <<site, job, lastJob>>
    BY DEF Faults, StopBroker, StopWorker, DialFails, LoseConnection, store
  <1>3. /\ KeepsRows /\ \A j \in JobId : lastJob < j => job'[j] = job[j]
        /\ \A j \in JobId : Pending(j)' <=> Pending(j)
    BY <1>2, Known DEF KeepsRows, Pending
  <1>4. \A w \in Workers, j \in JobId : job[j].status = "running" /\ worker[w].pc # "down" =>
          worker[w].pc \in Busy /\ worker[w].job = j
    BY DEF QueueInv, RunsInv
  <1>5. \A w \in Workers : worker[w].pc \in Holding =>
          worker[w].job \in 1..lastJob /\ Pending(worker[w].job) /\ Oldest(worker[w].job)
    BY QueueKnown DEF QueueInv, RunsInv
  <1>6. \A i \in DOMAIN inbox : inbox[i].job \in 1..lastJob
    BY Known
  <1>7. CASE StopBroker
    <2>1. \A w \in Workers : IF worker[w].pc = "calling"
                             THEN /\ worker'[w].pc = "answered" /\ worker'[w].job = worker[w].job
                                  /\ worker'[w].reply = "unknown"
                             ELSE worker'[w] = worker[w]
      BY <1>1, <1>7 DEF StopBroker, Worker
    <2>2. DOMAIN inbox' = {}
      <3>1. DOMAIN <<>> = {}
        OBVIOUS
      <3> QED BY <1>7, <3>1 DEF StopBroker
    <2>3. \A w \in Workers, j \in JobId : job'[j].status = "running" /\ worker'[w].pc # "down" =>
            worker'[w].pc \in Busy /\ worker'[w].job = j
      BY <1>2, <1>4, <2>1 DEF Busy
    <2>4. \A w \in Workers : worker'[w].pc \in Holding =>
            worker'[w].job \in 1..lastJob /\ Pending(worker'[w].job) /\ Oldest(worker'[w].job)
      <3>1. \A w \in Workers : worker'[w].pc \in Holding => worker[w].pc \in Holding /\ worker'[w].job = worker[w].job
        BY <2>1 DEF Holding, Busy
      <3> QED BY <1>5, <3>1
    <2> QED BY <1>2, <1>3, <2>2, <2>3, <2>4, QueueWaits
  <1>8. ASSUME NEW w \in Workers, StopWorker(w) PROVE QueueInv'
    <2>1. worker' = [worker EXCEPT ![w] = Down] /\ inbox' = Abandoned({w})
      BY <1>8 DEF StopWorker
    <2>2. \A x \in Workers : worker'[x].pc = "down"
      BY <1>1, <2>1 DEF OneWorker, Down
    <2>3. DOMAIN inbox' = DOMAIN inbox /\ \A i \in DOMAIN inbox : inbox'[i].job = inbox[i].job
      BY <2>1, AbandonedStands
    <2> QED BY <1>2, <1>3, <1>6, <2>2, <2>3, QueueWaits DEF Holding, Busy
  <1>9. ASSUME NEW w \in Workers, worker[w].pc \in Busy, NEW r \in {"unknown", "unavailable"}, Answer(w, r),
               DOMAIN inbox' = DOMAIN inbox, \A i \in DOMAIN inbox : inbox'[i].job = inbox[i].job
        PROVE  QueueInv'
    <2>1. \A x \in Workers : /\ worker'[x].pc = "answered" /\ worker'[x].job = worker[w].job
                             /\ worker'[x].reply \in {"unknown", "unavailable"}
      BY <1>1, <1>9 DEF Answer, OneWorker, Worker
    <2>2. worker[w].pc \in Holding /\ worker[w].pc # "down"
      BY <1>9 DEF Holding, Busy
    <2>3. \A x \in Workers, j \in JobId : job'[j].status = "running" /\ worker'[x].pc # "down" =>
            worker'[x].pc \in Busy /\ worker'[x].job = j
      BY <1>2, <1>4, <2>1, <2>2 DEF Busy
    <2>4. \A x \in Workers : worker'[x].pc \in Holding =>
            worker'[x].job \in 1..lastJob /\ Pending(worker'[x].job) /\ Oldest(worker'[x].job)
      BY <1>5, <2>1, <2>2
    <2>5. \A i \in DOMAIN inbox' : inbox'[i].job \in 1..lastJob /\ \E k \in DOMAIN inbox : inbox'[i].job = inbox[k].job
      BY <1>6, <1>9
    <2> QED BY <1>2, <1>3, <2>1, <2>3, <2>4, <2>5, QueueWaits
  <1>10. ASSUME NEW w \in Workers, LoseConnection(w) PROVE QueueInv'
    <2>1. Answer(w, "unknown") /\ inbox' = Abandoned({w}) /\ worker[w].pc \in Busy
      BY <1>10 DEF LoseConnection, Busy
    <2> QED BY <1>9, <2>1, AbandonedStands
  <1>11. ASSUME NEW w \in Workers, DialFails(w) PROVE QueueInv'
    <2>1. Answer(w, "unavailable") /\ UNCHANGED inbox /\ worker[w].pc \in Busy
      BY <1>11 DEF DialFails, Busy, wire
    <2> QED BY <1>9, <2>1
  <1> QED BY <1>7, <1>8, <1>10, <1>11 DEF Faults

\* The broker answers the last request of the job: those before it have been served.
LEMMA BrokerKeepsQueue ==
  ASSUME StoreInv, HostInv, QueueInv, Replayed, OneWorker, Ordered, BrokerStep
  PROVE  QueueInv'
  <1>1. worker \in [Workers -> Worker]
    BY DEF StoreInv, TypeOK
  <1>2. \A k \in DOMAIN inbox : /\ inbox[k].job \in 1..lastJob /\ inbox[k].waits = FALSE
                                /\ inbox[k].caller \in Workers \cup {None}
    <2>1. \A k \in DOMAIN inbox : /\ inbox[k].job \in 1..lastJob /\ inbox[k].waits \in BOOLEAN
                                  /\ inbox[k].caller \in Workers \cup {None}
      BY Known DEF Sent, Request
    <2>2. \A k \in DOMAIN inbox : job[inbox[k].job].kind # "site.restore_clone"
      BY <2>1, QueueKnown
    <2> QED BY <2>1, <2>2 DEF HostInv, RequestsInv
  <1>3. PICK i \in DOMAIN inbox : Execute(i)
    BY <1>2, QueueKnown DEF BrokerStep, CloneWaits
  <1>4. PICK q, n : q = inbox[i] /\ n = q.job /\ n \in 1..lastJob
    BY <1>2
  <1>5. PICK x \in Results(q) : IF q.caller = None THEN UNCHANGED worker ELSE Answer(q.caller, x.reply)
    BY <1>3, <1>4 DEF Execute
  <1>6. inbox' = RemoveAt(inbox, i) /\ MayRun(i) /\ UNCHANGED <<site, job, lastJob>>
    BY <1>3 DEF Execute, store
  <1>7. /\ \A k \in DOMAIN inbox' : \E l \in DOMAIN inbox : l # i /\ inbox'[k] = inbox[l]
        /\ DOMAIN inbox = 1..Len(inbox) /\ Len(inbox) \in Nat
    BY <1>6, Remaining, Known
  <1>8. /\ KeepsRows /\ \A j \in JobId : lastJob < j => job'[j] = job[j]
        /\ \A j \in JobId : Pending(j)' <=> Pending(j)
    BY <1>6, Known DEF KeepsRows, Pending
  <1>9. \A w \in Workers : worker'[w] = worker[w] \/
          (worker[w].pc = "calling" /\ worker'[w].pc = "answered" /\ worker'[w].job = worker[w].job)
    <2>1. CASE q.caller = None
      BY <1>5, <2>1
    <2>2. CASE q.caller # None
      <3>1. worker' = [worker EXCEPT ![q.caller] = [@ EXCEPT !.pc = "answered", !.reply = x.reply]]
        BY <1>5, <2>2 DEF Answer
      <3>2. worker[q.caller].pc = "calling" /\ q.caller \in Workers
        BY <1>2, <1>4, <2>2 DEF StoreInv, CallersWait
      <3> QED BY <1>1, <3>1, <3>2 DEF Worker
    <2> QED BY <2>1, <2>2
  <1>10. \A w \in Workers, j \in JobId : job'[j].status = "running" /\ worker'[w].pc # "down" =>
           worker'[w].pc \in Busy /\ worker'[w].job = j
    BY <1>6, <1>9 DEF QueueInv, RunsInv, Busy
  <1>11. \A w \in Workers : worker'[w].pc \in Holding =>
           worker'[w].job \in 1..lastJob /\ Pending(worker'[w].job) /\ Oldest(worker'[w].job)
    <2>1. \A w \in Workers : worker[w].pc \in Holding =>
            worker[w].job \in 1..lastJob /\ Pending(worker[w].job) /\ Oldest(worker[w].job)
      BY QueueKnown DEF QueueInv, RunsInv
    <2>2. \A w \in Workers : worker'[w].pc \in Holding => worker[w].pc \in Holding /\ worker'[w].job = worker[w].job
      BY <1>9 DEF Holding, Busy
    <2> QED BY <2>1, <2>2
  <1>12. ASSUME NEW w \in Workers, worker'[w].pc = "answered", worker'[w].reply \notin {"unknown", "unavailable"},
                NEW k \in DOMAIN inbox', inbox'[k].job = worker'[w].job
         PROVE  FALSE
    <2>1. PICK l \in DOMAIN inbox : l # i /\ inbox'[k] = inbox[l]
      BY <1>7
    <2>2. CASE q.caller = None
      BY <1>5, <1>12, <2>1, <2>2 DEF QueueInv, RunsInv
    <2>3. CASE q.caller # None
      <3>1. /\ worker[q.caller].pc = "calling" /\ worker[q.caller].job = n /\ q.caller \in Workers
            /\ i = Len(inbox)
        BY <1>2, <1>4, <2>3 DEF StoreInv, CallersWait, HostInv, RequestsInv
      <3>2. inbox[l].job = n
        BY <1>9, <1>12, <2>1, <3>1 DEF OneWorker
      <3>3. l \in 1..(i - 1)
        BY <1>7, <2>1, <3>1
      <3>4. TakesBackupLock(inbox[l]) <=> TakesBackupLock(inbox[i])
        BY <1>2, <1>4, <3>2 DEF TakesBackupLock
      <3> QED BY <1>2, <1>6, <3>3, <3>4 DEF MayRun
    <2> QED BY <2>2, <2>3
  <1>13. \A k \in DOMAIN inbox' :
           inbox'[k].job \in 1..lastJob /\ \E l \in DOMAIN inbox : inbox'[k].job = inbox[l].job
    BY <1>2, <1>7
  <1> QED BY <1>6, <1>8, <1>10, <1>11, <1>12, <1>13, QueueWaits
LEMMA StutterKeepsQueue == QueueInv /\ UNCHANGED vars => QueueInv'
  BY DEF vars, store, wire, QueueInv, RunsInv, OwedInv, Pending, Oldest, Deletes

LEMMA QueueInit == Init => QueueInv
  <1> SUFFICES ASSUME Init PROVE QueueInv
    OBVIOUS
  <1>1. /\ lastJob = 0 /\ inbox = <<>> /\ \A j \in JobId : job[j] = NoJob
        /\ \A w \in Workers : worker[w].pc = "down"
    BY DEF Init, Down
  <1>2. DOMAIN inbox = {}
    <2>1. DOMAIN <<>> = {}
      OBVIOUS
    <2> QED BY <1>1, <2>1
  <1>3. \A j \in JobId : ~Pending(j) /\ ~Deletes(j)
    BY <1>1, KindsAssumption, KindFacts DEF NoJob, Pending, Deletes
  <1>4. RunsInv
    BY <1>1, <1>2 DEF RunsInv, Holding, Busy
  <1>5. OwedInv
    BY <1>3 DEF OwedInv
  <1> QED BY <1>4, <1>5 DEF QueueInv

LEMMA QueueStep ==
  Ordered /\ OneWorker /\ Replayed /\ StoreInv /\ HostInv /\ QueueInv /\ [Next]_vars => QueueInv'
  <1> SUFFICES ASSUME Ordered, OneWorker, Replayed, StoreInv, HostInv, QueueInv, [Next]_vars PROVE QueueInv'
    OBVIOUS
  <1>1. StoreInv'
    BY StepIsSafe
  <1>2. CASE Handlers
    BY <1>1, <1>2, HandlersKeepQueue
  <1>3. CASE \E w \in Workers : WorkerStep(w)
    BY <1>3, WorkerKeepsQueue
  <1>4. CASE BrokerStep
    BY <1>4, BrokerKeepsQueue
  <1>5. CASE Faults
    BY <1>5, FaultsKeepQueue
  <1>6. CASE UNCHANGED vars
    BY <1>6, StutterKeepsQueue
  <1> QED BY <1>2, <1>3, <1>4, <1>5, <1>6 DEF Next

\* When a change or a deletion is recorded, the broker holds nothing for its site.
LEMMA NothingLeft ==
  ASSUME StoreInv, HostInv, QueueInv, Replayed, OneWorker, NEW w \in Workers, NEW k \in LifecycleKinds,
         Finishing(w, {k})
  PROVE  \A i \in DOMAIN inbox : ~Touches(inbox[i].job, job[worker[w].job].site)
  <1>1. PICK n \in 1..lastJob : /\ n = worker[w].job /\ n \in JobId /\ job[n].kind = k
                                /\ job[n].status = "running"
    BY FinishingFacts
  <1>2. k \in StatusKinds /\ k \in ReplayKinds /\ Transit[k] \in LockedStatus
    BY KindFacts DEF LifecycleKinds, ReplayKinds, LockedStatus
  <1>3. worker[w].pc = "answered" /\ worker[w].reply \notin {"unknown", "unavailable"}
    BY <1>1, <1>2 DEF Finishing
  <1>4. job[n].site \in Sites /\ site[job[n].site].status \in LockedStatus
    BY <1>1, <1>2, Known, OwnStatus DEF Pending
  <1> SUFFICES ASSUME NEW i \in DOMAIN inbox, Touches(inbox[i].job, job[n].site) PROVE FALSE
    BY <1>1
  <1>5. PICK m \in JobId : m = inbox[i].job /\ m \in 1..lastJob
    BY Known
  <1>6. Pending(m) /\ job[m].site = job[n].site
    BY <1>4, <1>5, QueueKnown DEF QueueInv, RunsInv
  <1>7. job[m].kind \in StatusKinds
    BY <1>4, <1>5, <1>6, KindFacts DEF StoreInv, LockedSitesAreQuiet, LifecycleKinds
  <1>8. m = n
    BY <1>1, <1>2, <1>6, <1>7, OwnStatus DEF Pending
  <1> QED BY <1>1, <1>3, <1>5, <1>8 DEF QueueInv, RunsInv

\* No handler takes a site out of the reserved statuses.
LEMMA HandlersKeepLocked ==
  ASSUME StoreInv, Handlers, NEW s \in Sites, site[s].status \in LockedStatus
  PROVE  site'[s].status \in LockedStatus
  <1>1. site \in [Sites -> SiteRow]
    BY DEF StoreInv, TypeOK
  <1>2. PICK t \in Sites :
          \/ EnqueueSiteDisable(t) \/ EnqueueSiteEnable(t) \/ EnqueueSiteProvisionRetry(t)
          \/ EnqueueSiteDelete(t) \/ RetryDomainChange(t) \/ RetrySiteDelete(t)
          \/ EnqueueSiteBackup(t) \/ ReadSnippetSite(t) \/ SetSiteSnippets(t)
          \/ \E d \in Domains :
               \/ CreateSite(t, d) \/ EnqueueDomainChange(t, d)
               \/ \E src \in Sites : EnqueueRestoreClone(src, t, d)
    BY DEF Handlers
  <1> DEFINE Holds == \/ UNCHANGED site
                      \/ \E st : SetStatus(t, st) /\ (st \in LockedStatus \/ site[t].status \notin LockedStatus)
                      \/ \E v : site' = [site EXCEPT ![t] = v] /\ site[t].status \notin LockedStatus
  <1>3. EnqueueSiteBackup(t) \/ ReadSnippetSite(t) \/ SetSiteSnippets(t) => Holds
    BY DEF EnqueueSiteBackup, ReadSnippetSite, SetSiteSnippets, store
  <1>4. EnqueueSiteDisable(t) \/ EnqueueSiteEnable(t) \/ EnqueueSiteProvisionRetry(t) => Holds
    BY DEF EnqueueSiteDisable, EnqueueSiteEnable, EnqueueSiteProvisionRetry, EnqueueSiteTransition, LockedStatus
  <1>5. RetryDomainChange(t) \/ RetrySiteDelete(t) \/ EnqueueSiteDelete(t) => Holds
    BY KindFacts DEF RetryDomainChange, RetrySiteDelete, RetryFailedLifecycleJob, EnqueueSiteDelete, LockedStatus
  <1>6. ASSUME NEW d \in Domains, EnqueueDomainChange(t, d) PROVE Holds
    BY <1>6 DEF EnqueueDomainChange, LockedStatus
  <1>7. ASSUME NEW d \in Domains, InsertSite(t, d) PROVE Holds
    <2>1. site' = [site EXCEPT ![t] = [status |-> "queued", domain |-> d]] /\ site[t].status = "absent"
      BY <1>7 DEF InsertSite
    <2> QED BY <2>1 DEF LockedStatus
  <1>8. Holds
    BY <1>2, <1>3, <1>4, <1>5, <1>6, <1>7 DEF CreateSite, EnqueueRestoreClone
  <1>9. ASSUME NEW st, SetStatus(t, st), st \in LockedStatus \/ site[t].status \notin LockedStatus
        PROVE  site'[s].status \in LockedStatus
    BY <1>1, <1>9 DEF SetStatus, SiteRow
  <1>10. ASSUME NEW v, site' = [site EXCEPT ![t] = v], site[t].status \notin LockedStatus
         PROVE  site'[s].status \in LockedStatus
    BY <1>1, <1>10
  <1> QED BY <1>8, <1>9, <1>10

\* A recorded change or deletion names the host as the answer left it.
LEMMA ReleasedStep ==
  ASSUME Ordered, OneWorker, Replayed, StoreInv, HostInv, QueueInv, [Next]_vars, NEW s \in Sites,
         site[s].status \in LockedStatus, site'[s].status \notin LockedStatus
  PROVE  /\ host[s] = IF site'[s].status = "absent" THEN Gone ELSE Up(site'[s].domain)
         /\ \A i \in DOMAIN inbox : ~Touches(inbox[i].job, s)
  <1>1. site' # site
    OBVIOUS
  <1>2. ~BrokerStep /\ ~Faults /\ ~UNCHANGED vars
    BY <1>1 DEF BrokerStep, Execute, CloneWaits, Faults, StopBroker, StopWorker, DialFails, LoseConnection,
                store, vars
  <1>3. PICK w \in Workers : WorkerStep(w)
    BY <1>2, HandlersKeepLocked DEF Next
  <1>4. ~FinishTransition(w)
    <2> SUFFICES ASSUME FinishTransition(w) PROVE FALSE
      OBVIOUS
    <2>1. worker[w].pc \in Busy /\ job[worker[w].job].kind \in StatusKinds \ LifecycleKinds
      BY DEF FinishTransition, Finishing, Busy
    <2>2. worker[w].job \in 1..lastJob
      BY <2>1, Known
    <2> QED BY <2>1, <2>2, QueueKnown, KindFacts DEF LifecycleKinds
  <1>5. FinishDomainChange(w) \/ FinishSiteDelete(w)
    BY <1>1, <1>3, <1>4 DEF WorkerStep, StartWorker, SelectJob, ClaimJob, CallBroker, RefuseCall, RetryJob,
                            FinishOrdinary, store
  <1>6. CASE FinishDomainChange(w)
    <2>1. PICK n, t, r : ChangeDone(n, t, r) /\ n = worker[w].job
      BY <1>6, ChangeFinishes
    <2>2. t = s /\ job[n].site = s /\ r \in {"ok", "restored"} /\ site'[s].status = "active"
      BY <2>1 DEF ChangeDone, LockedStatus
    <2>3. host[s] = Up(site'[s].domain)
      BY <2>1, <2>2 DEF ChangeDone, AnswerTrue
    <2>4. Finishing(w, {"site.domain_change"})
      BY <1>6 DEF FinishDomainChange
    <2> QED BY <2>1, <2>2, <2>3, <2>4, NothingLeft DEF LifecycleKinds
  <1>7. CASE FinishSiteDelete(w)
    <2>1. PICK n, t, ok : DeleteDone(n, t, ok) /\ n = worker[w].job
      BY <1>7, DeleteFinishes
    <2>2. t = s /\ job[n].site = s /\ ok = TRUE
      BY <2>1 DEF DeleteDone, LockedStatus
    <2>3. site'[s].status = "absent" /\ host[s] = Gone
      BY <2>1, <2>2 DEF DeleteDone, NoRow
    <2>4. Finishing(w, {"site.delete"})
      BY <1>7 DEF FinishSiteDelete
    <2> QED BY <2>1, <2>2, <2>3, <2>4, NothingLeft DEF LifecycleKinds
  <1> QED BY <1>5, <1>6, <1>7

-----------------------------------------------------------------------------
\* While every kind of job is replayed until its answer is known, the worker goes
\* through the jobs of a site in order and leaves no request behind.
THEOREM QueueIsKnown ==
  ASSUME Ordered, OneWorker, Replayed
  PROVE  Spec => [](StoreInv /\ HostInv /\ QueueInv)
  <1>1. Init => QueueInv
    BY QueueInit
  <1>2. StoreInv /\ HostInv /\ QueueInv /\ [Next]_vars => QueueInv'
    BY QueueStep
  <1> QED BY <1>1, <1>2, HostIsKnown, PTL DEF Spec

\* The broker never holds requests of two different jobs for one site: what it may
\* run twice is always the same operation.
THEOREM NoIncompatibleRequests ==
  ASSUME Ordered, OneWorker, Replayed
  PROVE  Spec => []NoIncompatibleRequest
  <1>1. StoreInv /\ QueueInv => NoIncompatibleRequest
    <2> SUFFICES ASSUME StoreInv, QueueInv, NEW i \in DOMAIN inbox, NEW k \in DOMAIN inbox, NEW s \in Sites,
                        Touches(inbox[i].job, s), Touches(inbox[k].job, s)
                 PROVE  inbox[i].job = inbox[k].job
      BY DEF NoIncompatibleRequest
    <2>1. PICK m, n \in JobId : m = inbox[i].job /\ n = inbox[k].job /\ m \in 1..lastJob /\ n \in 1..lastJob
      BY Known
    <2>2. job[m].site = s /\ job[n].site = s
      BY <2>1, QueueKnown
    <2>3. Pending(m) /\ Pending(n) /\ Oldest(m) /\ Oldest(n)
      BY <2>1 DEF QueueInv, RunsInv
    <2>4. m <= n /\ n <= m
      BY <2>2, <2>3 DEF Oldest
    <2> QED BY <2>1, <2>4
  <1> QED BY <1>1, QueueIsKnown, PTL

\* FinishDomainChange and FinishSiteDelete release a site only when the host has
\* settled and the broker holds nothing for it any more.
THEOREM ReleasesAreSettled ==
  ASSUME Ordered, OneWorker, Replayed
  PROVE  Spec => ReleasedOnlyWhenSettled
  <1>1. StoreInv /\ HostInv /\ QueueInv /\ [Next]_vars =>
          [\A s \in Sites :
             site[s].status \in LockedStatus /\ site'[s].status \notin LockedStatus =>
               /\ host[s] = IF site'[s].status = "absent" THEN Gone ELSE Up(site'[s].domain)
               /\ \A i \in DOMAIN inbox : ~Touches(inbox[i].job, s)]_vars
    BY ReleasedStep
  <1> QED BY <1>1, QueueIsKnown, PTL DEF Spec, ReleasedOnlyWhenSettled
=============================================================================
