---------------------------- MODULE HostResults ----------------------------
(***************************************************************************)
(* What one call of the root broker may do to a site, as its caller sees   *)
(* it: the host before and after, the recovery journal of the job, and the *)
(* answer.  SiteLifecycle runs each request as one step chosen from these  *)
(* sets; the modules of the host operations show that every call of theirs *)
(* ends in one of them, wherever it stops.                                 *)
(***************************************************************************)

CONSTANT None     \* "no site" / "no domain" / "nobody waits for the answer"

\* A site as the host has it: its files, its vhost, whether visitors get in.
Gone   == [files |-> FALSE, vhost |-> None, serving |-> FALSE]
Up(d)  == [files |-> TRUE, vhost |-> d, serving |-> TRUE]
Off(d) == [files |-> TRUE, vhost |-> d, serving |-> FALSE]
Bare(d) == [files |-> FALSE, vhost |-> d, serving |-> FALSE]

Result(h, n, r) == [host |-> h, journal |-> n, reply |-> r]

\* Provision: account and directories, then the vhost is written, enabled and
\* loaded, then cron.
\* Mutant: directories that exist are taken for a provisioned site.
ProvisionResultsSkipped(h, n, d) ==
    {Result(Up(d), n, "ok"), Result([h EXCEPT !.files = TRUE], n, "ok"), Result(h, n, "fail")}

ProvisionResults(h, n, d) ==
    {Result(Up(d), n, "ok"), Result(Up(d), n, "fail"),
     Result(IF h.serving THEN Up(d) ELSE Off(d), n, "fail"),
     Result([h EXCEPT !.files = TRUE], n, "fail"), Result(h, n, "fail")}

\* RestoreClone answers from its result file once it has succeeded.  It first
\* provisions its target; a call that gets so far then waits for the backup lock.
CloneResults(h, n, d) ==
    IF n = "done" THEN {Result(h, n, r) : r \in {"ok", "fail"}}
    ELSE {q \in ProvisionResults(h, n, d) : q.reply = "fail"}

\* With both locks it restores into the directory that is there, without a
\* second look at the result file.
RestoreResults(h, n) ==
    {Result(h, n, "fail")}
    \cup (IF h.files THEN {Result(h, "done", r) : r \in {"ok", "fail"}} ELSE {})

DisableResults(h, n) ==
    {Result([h EXCEPT !.serving = FALSE], n, r) : r \in {"ok", "fail"}} \cup {Result(h, n, "fail")}

\* A deletion takes visitors away first, then the files, then the vhost; what
\* is gone stays gone, and a later call under the same key takes it from there.
DeleteResults(h, n) ==
    LET Halfway == {h, [h EXCEPT !.serving = FALSE],
                    Bare(h.vhost), Gone}
    IN  IF n = "done" THEN {Result(h, n, r) : r \in {"ok", "fail"}}
        ELSE {Result(h, n, "fail")}
             \cup {Result(x, "removing", "fail") : x \in Halfway}
             \cup {Result(Gone, "done", r) : r \in {"ok", "fail"}}

\* What visitors may find while the journal is in state n: nothing but the
\* write gate, or one of the two vhosts.
Traffic(n, old, new) ==
    IF n = "activating" THEN {Off(old), Up(new)} ELSE {Off(old), Up(old)}

\* Mutant of PreflightResults: a replay that fails its checks counts as restored.
PreflightResultsAlways(h, n) == {Result(h, n, "restored")}

\* A change that fails its checks before it has a journal has changed nothing.
PreflightResults(h, n) == IF n = "none" THEN {Result(h, n, "restored")} ELSE {}

\* An unfinished change ends in one of the two domains, or stops half way; it
\* may be settled and still answer with the failure of its last journal write.
DomainChangeSteps(h, n, old, new) ==
    LET Open == IF n \in {"none", "changing"} THEN {"changing", "activating", "rollback"} ELSE {n}
    IN  {Result(h, n, "fail")}
        \cup PreflightResults(h, n)
        \cup (UNION {{Result(t, m, "fail") : t \in Traffic(m, old, new)} : m \in Open})
        \cup (IF "activating" \in Open THEN {Result(Up(new), "complete", r) : r \in {"ok", "fail"}} ELSE {})
        \cup (IF "rollback" \in Open THEN {Result(Up(old), "restored", r) : r \in {"restored", "fail"}} ELSE {})

DomainChangeResults(h, n, old, new) ==
    IF ~h.files THEN {Result(h, n, "fail")}
    ELSE CASE n = "complete" -> {Result(h, n, r) : r \in {"ok", "fail"}}
           [] n = "restored" -> {Result(h, n, r) : r \in {"restored", "fail"}}
           [] OTHER          -> DomainChangeSteps(h, n, old, new)
=============================================================================
