---------------------------- MODULE SnapshotReads ----------------------------
(***************************************************************************)
(* What the store promises a reader (service/store.py, `snapshot` and the  *)
(* reads made inside one): a snapshot is one state the file was committed  *)
(* in, the newest when it opened, and every answer given in it is the      *)
(* answer of that state.  Nothing here is kept, labelled or locked.        *)
(***************************************************************************)
EXTENDS Naturals, Sequences

CONSTANTS
    Threads,       \* the readers
    Kinds,         \* what can be asked for
    NoAnswer,      \* not answered yet
    Answer(_, _)   \* the answer of a kind in a state

VARIABLES
    history,       \* every state the file was committed in, oldest first
    view,          \* the state each snapshot reads, a position in history; 0: no snapshot
    answers        \* what each snapshot was answered

vars == <<history, view, answers>>

Nothing == [k \in Kinds |-> NoAnswer]

Init ==
    /\ Len(history) = 1
    /\ view = [t \in Threads |-> 0]
    /\ answers = [t \in Threads |-> Nothing]

\* Any connection commits: one state more, and none forgotten.
Commit ==
    /\ Len(history') = Len(history) + 1
    /\ \A i \in 1..Len(history) : history'[i] = history[i]
    /\ UNCHANGED <<view, answers>>

Open(t) ==
    /\ view[t] = 0
    /\ view' = [view EXCEPT ![t] = Len(history)]
    /\ UNCHANGED <<history, answers>>

Ask(t, k) ==
    /\ view[t] # 0
    /\ answers' = [answers EXCEPT ![t][k] = Answer(k, history[view[t]])]
    /\ UNCHANGED <<history, view>>

Close(t) ==
    /\ view[t] # 0
    /\ view' = [view EXCEPT ![t] = 0]
    /\ answers' = [answers EXCEPT ![t] = Nothing]
    /\ UNCHANGED history

Next ==
    \/ Commit
    \/ \E t \in Threads : Open(t) \/ Close(t) \/ \E k \in Kinds : Ask(t, k)

Spec == Init /\ [][Next]_vars
=============================================================================
