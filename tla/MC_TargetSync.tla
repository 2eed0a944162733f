---------------------------- MODULE MC_TargetSync ----------------------------
(* Instances of TargetSync: a harness that takes hook files (`t`), and a   *)
(* plain directory that takes canonical agents (`d`).                      *)
EXTENDS TargetSync, TLC

CONSTANTS a, h, t, d, v1, v2, w, u

Native == [target |-> t, item |-> a, lane |-> "native"]
HookDir == [target |-> t, item |-> h, lane |-> "copy"]
HookFile == [target |-> t, item |-> h, lane |-> "hookfile"]
Plain == [target |-> d, item |-> a, lane |-> "copy"]

Conf(wa, wh, ts, pol) ==
    [want |-> (a :> wa @@ h :> wh), targets |-> ts, policy |-> pol]
Cmd(k, x, f) == [kind |-> k, target |-> x, force |-> f]

AllPaths == {Native, HookDir, HookFile, Plain}
AllConfigs == {Conf(v1, v1, {t, d}, "all"), Conf(v2, None, {t, d}, "selective"),
               Conf(None, v1, {d}, "suppress")}
AllCommands == {Cmd("sync", None, FALSE), Cmd("sync", None, TRUE),
                Cmd("link", t, FALSE), Cmd("unlink", t, FALSE)}
==============================================================================
