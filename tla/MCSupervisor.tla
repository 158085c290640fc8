---------------------------- MODULE MCSupervisor ----------------------------
(* The shape of SERVICES: a oneshot self test and daemons that need it.    *)
EXTENDS Supervisor

MCOrder == <<"selftest", "tty0", "tty1">>
MCKind == [s \in {"selftest", "tty0", "tty1"} |->
             IF s = "selftest" THEN "Oneshot" ELSE "Daemon"]
MCRestart == [s \in {"selftest", "tty0", "tty1"} |->
                IF s = "tty0" THEN "Always" ELSE "OnFailure"]
MCDependsOn == [s \in {"selftest", "tty0", "tty1"} |->
                  CASE s = "selftest" -> {}
                    [] s = "tty0" -> {"selftest"}
                    [] s = "tty1" -> {"selftest", "tty0"}]
=============================================================================
