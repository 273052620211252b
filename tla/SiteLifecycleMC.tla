-------------------------- MODULE SiteLifecycleMC --------------------------
(* Instances of SiteLifecycle for TLC: the kinds each run enqueues. *)
EXTENDS SiteLifecycle, TLC

SwitchKinds    == {"site.provision", "site.disable", "site.enable", "site.delete"}
SiteKinds      == SwitchKinds \cup {"site.domain_change", "site.restore_clone", "site.config_apply"}
QueueKinds     == {"site.domain_change", "site.delete", "site.backup"}

DomainSymmetry == Permutations(Domains)
=============================================================================
