---------------------------- MODULE MCProcesses ----------------------------
(* Both libraries' ways to mind children, one at a time: libnano2's        *)
(* ProcessManager and libnano's masterd.                                   *)
EXTENDS ProcessManager, Masterd

VARIABLE subject

A == <<"a">>
B == <<"b">>
AB == <<"a", "b">>
Exe == Setting("exec", "worker")
Sections(first, second) == <<Header(first), Exe, Header(second), Exe>>
MCFiles == {Sections(A, AB), Sections(AB, A), Sections(A, B), <<>>}

MindersInit ==
  /\ subject \in {"manager", "masterd"}
  /\ Init
  /\ \E lines \in IF subject = "masterd" THEN Files ELSE {<<>>} : MasterdInit(lines)

Manager(Action) == subject = "manager" /\ Action /\ UNCHANGED <<subject, masterd_vars>>
Master(Action) == subject = "masterd" /\ Action /\ UNCHANGED <<subject, vars>>

minders_vars == <<subject, vars, masterd_vars>>

MindersSpec ==
  /\ MindersInit /\ [][Manager(Next) \/ Master(MasterdNext)]_minders_vars
  /\ WF_minders_vars(Manager(OnProcessTimer))
  /\ WF_minders_vars(Master(Step))
  /\ \A p \in Children : WF_minders_vars(Master(Exec(p)))
=============================================================================
