---------------------------- MODULE AdapterLogMC ----------------------------
(* Instances of AdapterLog for TLC. *)
EXTENDS AdapterLog

LevelsOf == [i |-> 2, e |-> 4, f |-> 5]
LevelsMC == [c \in Calls |-> LevelsOf[c]]
LoggersOf == [i |-> "root", e |-> "context", f |-> "fields"]
LoggersMC == [c \in Calls |-> LoggersOf[c]]
HooksMC == [h \in {"named"} |-> {2}]
FuncsMC == <<"f1", "f2">>
=============================================================================
