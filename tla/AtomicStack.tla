---------------------------- MODULE AtomicStack ----------------------------
(***************************************************************************)
(* What the drivers take a liblfds stack to be: a last-in first-out list   *)
(* on which any number of CPUs push and pop, each call taking effect at    *)
(* one instant between its call and its return.  gnttbl.c keeps the free   *)
(* grant references on one, xennet_rx.c the free pages and headers.  A     *)
(* pop of an empty stack fails; a push never does, because a stack is made *)
(* with an element for every value that will ever be pushed.               *)
(***************************************************************************)
EXTENDS Naturals, Sequences, FiniteSets

CONSTANTS Threads,      \* the CPUs that call the stack
          Values,       \* what is pushed: grant references, page pointers
          NoValue       \* what a failed pop gives back

VARIABLES stack,        \* the values on the stack, the top first
          held,         \* the values that callers hold, pushed by nobody yet
          call          \* for every thread, the call it is in

avars == <<stack, held, call>>

Idle == [op |-> "idle", value |-> NoValue]

(***************************************************************************)
(* The values in every order, each once.                                   *)
(***************************************************************************)
Orders == {s \in [1 .. Cardinality(Values) -> Values] :
             \A i, j \in DOMAIN s : s[i] = s[j] => i = j}

(***************************************************************************)
(* Made by stack_new, and filled with a push for every value.              *)
(***************************************************************************)
Init == /\ stack \in Orders
        /\ held = {}
        /\ call = [t \in Threads |-> Idle]

(***************************************************************************)
(* A call of stack_push gives away a value its caller holds.               *)
(***************************************************************************)
CallPush(t, v) == /\ call[t] = Idle
                  /\ v \in held
                  /\ held' = held \ {v}
                  /\ call' = [call EXCEPT ![t] = [op |-> "push", value |-> v]]
                  /\ UNCHANGED stack

Push(t) == /\ call[t].op = "push"
           /\ stack' = <<call[t].value>> \o stack
           /\ call' = [call EXCEPT ![t] = Idle]
           /\ UNCHANGED held

CallPop(t) == /\ call[t] = Idle
              /\ call' = [call EXCEPT ![t].op = "pop"]
              /\ UNCHANGED <<stack, held>>

Pop(t) == /\ call[t] = [op |-> "pop", value |-> NoValue]
          /\ stack # << >>
          /\ call' = [call EXCEPT ![t] = [op |-> "popped", value |-> stack[1]]]
          /\ stack' = Tail(stack)
          /\ UNCHANGED held

PopEmpty(t) == /\ call[t].op = "pop"
               /\ stack = << >>
               /\ call' = [call EXCEPT ![t].op = "empty"]
               /\ UNCHANGED <<stack, held>>

Return(t) == /\ call[t].op \in {"popped", "empty"}
             /\ held' = held \union ({call[t].value} \ {NoValue})
             /\ call' = [call EXCEPT ![t] = Idle]
             /\ UNCHANGED stack

Next == \E t \in Threads : \/ \E v \in Values : CallPush(t, v)
                           \/ Push(t) \/ CallPop(t) \/ Pop(t)
                           \/ PopEmpty(t) \/ Return(t)

Spec == Init /\ [][Next]_avars
=============================================================================
