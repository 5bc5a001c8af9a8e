----------------------------- MODULE MCLauncher -----------------------------
(* Small instances of Launcher for TLC.                                    *)
EXTENDS LauncherProofs

Cfg(t, b) == [type |-> t, benchmark |-> b]

(* The shipped cloudbeat.yml, and updates of both flavors, one without a   *)
(* type (what it leaves unset survives the merge) and one config.New       *)
(* rejects.                                                                *)
VulnBase == Cfg("vuln_mgmt", Unset)
Mixed == {Cfg("cspm", "cis_aws"), Cfg("vuln_mgmt", Unset), Cfg(Unset, "unsupported")}

(* Vulnerability management only, where Stop of the beater works. *)
VulnOnly == {Cfg(Unset, "cis_aws"), Cfg("vuln_mgmt", Unset), Cfg(Unset, "unsupported")}
AllUpdates == Mixed \cup VulnOnly
OneUpdate == {Cfg("vuln_mgmt", Unset)}
=============================================================================
