------------------------------ MODULE QFEvents ------------------------------
(***************************************************************************)
(* The life of a dynamic event: taken from an event pool by QF_new_,       *)
(* posted or published, deferred and recalled, handled, and returned to    *)
(* the pool by QF_gc when its last reference is gone.  The pool is the     *)
(* free list of qmp_get.c and qmp_put.c; the reference counter is the one  *)
(* in the event.  Active objects subscribe to the one signal there is, and *)
(* unsubscribe, as they like, also while somebody publishes: QF_publish    *)
(* reads the subscription list byte by byte, outside of critical sections. *)
(*                                                                         *)
(* Every critical section is one action.  The contexts, the active objects *)
(* and an interrupt, interleave at will, which covers every preemption QK  *)
(* allows.                                                                 *)
(***************************************************************************)
EXTENDS QPSet, Sequences, FiniteSets, SequencesExt

CONSTANTS
  Block,        (* the memory blocks of the event pool                     *)
  NULL,         (* the null pointer                                        *)
  N_AO,         (* active objects 1 .. N_AO                                *)
  MAX_REFS      (* bound: references to one event                          *)

AO  == 1 .. N_AO
ISR == 0
Ctx == AO \cup {ISR}
Byte == 0 .. Div8(N_AO)   (* of a subscription list *)

ASSUME EventAssumption ==
  /\ N_AO \in Nat \ {0}
  /\ NULL \notin Block /\ IsFiniteSet(Block) /\ MAX_REFS \in Nat

VARIABLES
  freeList,  (* the free blocks, from free_head on                         *)
  nFree,     (* the number of free blocks                                  *)
  nMin,      (* the smallest nFree so far                                  *)
  refCtr,    (* refCtr[b]: the reference counter in block b                *)
  queue,     (* queue[a]: the event queue of a                             *)
  deferred,  (* deferred[a]: the events a has deferred                     *)
  pc,        (* pc[c]: where context c is                                  *)
  ev,        (* ev[a]: the event a handles                                 *)
  new,       (* new[c]: the event c has created and not sent yet           *)
  arg,       (* arg[c]: the event that c publishes, recalls or collects    *)
  subscr,    (* the bytes of QF_subscrList_ for the signal                 *)
  byte,      (* byte[c]: i, the bytes c has not read yet                   *)
  todo,      (* todo[c]: tmp, the bits of the last one read not posted to  *)
  status     (* "running", "empty" (pool assertion) or "failed"            *)

poolVars == <<freeList, nFree, nMin>>
listVars == <<subscr, byte, todo>>
ctxVars  == <<pc, ev, new, arg>>
vars == <<poolVars, refCtr, queue, deferred, ctxVars, listVars, status>>

Init ==
  /\ freeList = SetToSeq(Block)
  /\ nFree = Cardinality(Block) /\ nMin = Cardinality(Block)
  /\ refCtr = [b \in Block |-> 0]
  /\ queue = [a \in AO |-> << >>] /\ deferred = [a \in AO |-> << >>]
  /\ pc = [c \in Ctx |-> IF c = ISR THEN "run" ELSE "idle"]
  /\ ev = [a \in AO |-> NULL]
  /\ new = [c \in Ctx |-> NULL] /\ arg = [c \in Ctx |-> NULL]
  /\ subscr = [i \in Byte |-> {}]
  /\ byte = [c \in Ctx |-> 0] /\ todo = [c \in Ctx |-> {}]
  /\ status = "running"

At(c, l) == status = "running" /\ pc[c] = l
Goto(c, l) == pc' = [pc EXCEPT ![c] = l]

(* Where context c goes on after QF_gc: in its step, unless that has ended *)
(* because it has no event any more.                                       *)
Resume(c) == Goto(c, IF c # ISR /\ ev[c] = NULL THEN "idle" ELSE "run")
Forget(c) == arg' = [arg EXCEPT ![c] = NULL]

Halt(why) ==
  /\ status' = why
  /\ UNCHANGED <<poolVars, refCtr, queue, deferred, ctxVars, listVars>>

----------------------------------------------------------------------------
(* Creating and sending an event.                                          *)

(* QF_new_: take the first free block, whose counter is set to 0.          *)
New(c) ==
  /\ At(c, "run") /\ new[c] = NULL
  /\ \/ /\ freeList = << >>
        /\ Halt("empty")
     \/ /\ freeList # << >>
        /\ new' = [new EXCEPT ![c] = Head(freeList)]
        /\ refCtr' = [refCtr EXCEPT ![Head(freeList)] = 0]
        /\ freeList' = Tail(freeList)
        /\ nFree' = nFree - 1
        /\ nMin' = IF nMin > nFree - 1 THEN nFree - 1 ELSE nMin
        /\ UNCHANGED <<queue, deferred, pc, ev, arg, listVars, status>>

(* QActive_postFIFO of e to q.                                             *)
Enqueue(e, q) ==
  /\ refCtr[e] < MAX_REFS
  /\ refCtr' = [refCtr EXCEPT ![e] = @ + 1]
  /\ queue' = [queue EXCEPT ![q] = Append(@, e)]

(* Post a new event.                                                       *)
Post(c, q) ==
  /\ At(c, "run") /\ new[c] # NULL
  /\ Enqueue(new[c], q)
  /\ new' = [new EXCEPT ![c] = NULL]
  /\ UNCHANGED <<poolVars, deferred, pc, ev, arg, listVars, status>>

(* Post the event that is being handled on to another active object.       *)
PostOn(a, q) ==
  /\ At(a, "run")
  /\ Enqueue(ev[a], q)
  /\ UNCHANGED <<poolVars, deferred, ctxVars, listVars, status>>

(* Mutant: QF_publish does not protect the event while it posts.           *)
ProtectNot(e) == UNCHANGED refCtr
Protect(e) == refCtr' = [refCtr EXCEPT ![e] = @ + 1]

(* QF_publish of the event e.                                              *)
Publish(c, e) ==
  /\ At(c, "run") /\ e # NULL /\ refCtr[e] < MAX_REFS
  /\ Protect(e)
  /\ arg' = [arg EXCEPT ![c] = e]
  /\ byte' = [byte EXCEPT ![c] = Cardinality(Byte)]
  /\ Goto(c, "publish")
  /\ UNCHANGED <<poolVars, queue, deferred, ev, subscr, todo, status>>

PublishNew(c) ==
  /\ Publish(c, new[c])
  /\ new' = [new EXCEPT ![c] = NULL]

PublishOn(a) == Publish(a, ev[a]) /\ UNCHANGED new

(* ... reads the next byte of the list, the highest priorities first, ...  *)
PublishRead(c) ==
  /\ At(c, "publish") /\ todo[c] = {} /\ byte[c] > 0
  /\ byte' = [byte EXCEPT ![c] = @ - 1]
  /\ todo' = [todo EXCEPT ![c] = subscr[byte[c] - 1]]
  /\ UNCHANGED <<poolVars, refCtr, queue, deferred, ctxVars, subscr, status>>

(* ... posts the event to the subscribers in it ...                        *)
PublishPost(c) ==
  /\ At(c, "publish") /\ todo[c] # {}
  /\ Enqueue(arg[c], Log2(todo[c]) + WIDTH * byte[c])
  /\ todo' = [todo EXCEPT ![c] = @ \ {Log2(todo[c])}]
  /\ UNCHANGED <<poolVars, deferred, ctxVars, subscr, byte, status>>

(* ... and collects it.                                                    *)
PublishEnd(c) ==
  /\ At(c, "publish") /\ todo[c] = {} /\ byte[c] = 0
  /\ Goto(c, "gc")
  /\ UNCHANGED <<poolVars, refCtr, queue, deferred, ev, new, arg, listVars, status>>

----------------------------------------------------------------------------
(* Collecting an event.                                                    *)

(* Mutant: the last but one reference is taken for the last.               *)
IsLastEarly(e) == refCtr[e] <= 2
IsLast(e) == refCtr[e] <= 1

(* QF_gc: drop one reference; the last one frees the event ...             *)
Gc(c) ==
  /\ At(c, "gc")
  /\ \/ /\ ~IsLast(arg[c])
        /\ refCtr' = [refCtr EXCEPT ![arg[c]] = @ - 1]
        /\ Resume(c) /\ Forget(c)
     \/ /\ IsLast(arg[c])
        /\ Goto(c, "put")
        /\ UNCHANGED <<refCtr, arg>>
  /\ UNCHANGED <<poolVars, queue, deferred, ev, new, listVars, status>>

(* ... after the critical section, with QMPool_put.                        *)
Put(c) ==
  /\ At(c, "put")
  /\ \/ /\ nFree >= Cardinality(Block)
        /\ Halt("failed")
     \/ /\ nFree < Cardinality(Block)
        /\ freeList' = <<arg[c]>> \o freeList
        /\ nFree' = nFree + 1
        /\ Resume(c) /\ Forget(c)
        /\ UNCHANGED <<nMin, refCtr, queue, deferred, ev, new, listVars, status>>

----------------------------------------------------------------------------
(* Handling an event.                                                      *)

(* QActive_get_: the reference of the queue becomes the one of the step.   *)
Get(a) ==
  /\ At(a, "idle") /\ queue[a] # << >>
  /\ ev' = [ev EXCEPT ![a] = Head(queue[a])]
  /\ queue' = [queue EXCEPT ![a] = Tail(@)]
  /\ Goto(a, "run")
  /\ UNCHANGED <<poolVars, refCtr, deferred, new, arg, listVars, status>>

(* The step has run to completion and QK_sched_ collects the event.        *)
Finish(a) ==
  /\ At(a, "run") /\ new[a] = NULL
  /\ arg' = [arg EXCEPT ![a] = ev[a]]
  /\ ev' = [ev EXCEPT ![a] = NULL]
  /\ Goto(a, "gc")
  /\ UNCHANGED <<poolVars, refCtr, queue, deferred, new, listVars, status>>

(* QActive_defer                                                           *)
Defer(a) ==
  /\ At(a, "run") /\ refCtr[ev[a]] < MAX_REFS
  /\ refCtr' = [refCtr EXCEPT ![ev[a]] = @ + 1]
  /\ deferred' = [deferred EXCEPT ![a] = Append(@, ev[a])]
  /\ UNCHANGED <<poolVars, queue, ctxVars, listVars, status>>

(* QActive_recall: take an event from the deferred ones, ...               *)
Recall(a) ==
  /\ At(a, "run") /\ deferred[a] # << >>
  /\ arg' = [arg EXCEPT ![a] = Head(deferred[a])]
  /\ deferred' = [deferred EXCEPT ![a] = Tail(@)]
  /\ Goto(a, "recallPost")
  /\ UNCHANGED <<poolVars, refCtr, queue, ev, new, listVars, status>>

(* ... post it to the front of a's own queue ...                           *)
RecallPost(a) ==
  /\ At(a, "recallPost")
  /\ refCtr' = [refCtr EXCEPT ![arg[a]] = @ + 1]
  /\ queue' = [queue EXCEPT ![a] = <<arg[a]>> \o @]
  /\ Goto(a, "recallDrop")
  /\ UNCHANGED <<poolVars, deferred, ev, new, arg, listVars, status>>

(* Mutant: the reference of the deferred queue is not dropped.             *)
DropNot(e) == UNCHANGED refCtr
Drop(e) == refCtr' = [refCtr EXCEPT ![e] = @ - 1]

(* ... and drop the reference it had there, which is not the last one.     *)
RecallDrop(a) ==
  /\ At(a, "recallDrop")
  /\ \/ /\ refCtr[arg[a]] <= 1
        /\ Halt("failed")
     \/ /\ refCtr[arg[a]] > 1
        /\ Drop(arg[a])
        /\ Goto(a, "run") /\ Forget(a)
        /\ UNCHANGED <<poolVars, queue, deferred, ev, new, listVars, status>>

(* QActive_subscribe, QActive_unsubscribe and, with the one signal,        *)
(* QActive_unsubscribeAll.                                                 *)
Subscribe(a) ==
  /\ At(a, "run")
  /\ subscr' = [subscr EXCEPT ![Div8(a)] = @ \cup {Pwr2(a)}]
  /\ UNCHANGED <<poolVars, refCtr, queue, deferred, ctxVars, byte, todo, status>>

Unsubscribe(a) ==
  /\ At(a, "run")
  /\ subscr' = [subscr EXCEPT ![Div8(a)] = @ \ {Pwr2(a)}]
  /\ UNCHANGED <<poolVars, refCtr, queue, deferred, ctxVars, byte, todo, status>>

----------------------------------------------------------------------------
Send(c) == New(c) \/ (\E q \in AO : Post(c, q)) \/ PublishNew(c)

Collect(c) == PublishRead(c) \/ PublishPost(c) \/ PublishEnd(c) \/ Gc(c) \/ Put(c)

Handle(a) ==
  \/ Get(a) \/ Finish(a) \/ PublishOn(a)
  \/ \E q \in AO : PostOn(a, q)
  \/ Subscribe(a) \/ Unsubscribe(a)
  \/ Defer(a) \/ Recall(a) \/ RecallPost(a) \/ RecallDrop(a)

Next ==
  \/ \E c \in Ctx : Send(c) \/ Collect(c)
  \/ \E a \in AO : Handle(a)

Spec == Init /\ [][Next]_vars

----------------------------------------------------------------------------
(* Properties.                                                             *)

TypeOK ==
  /\ freeList \in Seq(Block)
  /\ nFree \in Nat /\ nMin \in Nat
  /\ refCtr \in [Block -> Nat]
  /\ queue \in [AO -> Seq(Block)] /\ deferred \in [AO -> Seq(Block)]
  /\ pc \in [Ctx -> {"idle", "run", "publish", "gc", "put", "recallPost", "recallDrop"}]
  /\ ev \in [AO -> Block \cup {NULL}]
  /\ new \in [Ctx -> Block \cup {NULL}] /\ arg \in [Ctx -> Block \cup {NULL}]
  /\ subscr \in [Byte -> SUBSET (1 .. WIDTH)]
  /\ byte \in [Ctx -> 0 .. Cardinality(Byte)] /\ todo \in [Ctx -> SUBSET (1 .. WIDTH)]
  /\ status \in {"running", "empty", "failed"}

Occurrences(s, b) == Cardinality({i \in 1 .. Len(s) : s[i] = b})

(* The contexts for which f is b, and the places of b in the queues q.     *)
Holders(f, b) == {c \in DOMAIN f : f[c] = b}
Places(q, b) ==
  UNION {{<<a, i>> : i \in {j \in 1 .. Len(q[a]) : q[a][j] = b}} : a \in DOMAIN q}

(* The references to b that the program holds: in the steps that handle    *)
(* it, in the calls that publish, recall or collect it and in the queues.  *)
References(b) ==
  Cardinality(Holders(ev, b)) + Cardinality(Holders(arg, b))
  + Cardinality(Places(queue, b)) + Cardinality(Places(deferred, b))

Free(b)  == \E i \in 1 .. Len(freeList) : freeList[i] = b
Owned(b) == \E c \in Ctx : new[c] = b

(* The reference counter counts the references, at every point between the *)
(* critical sections of all contexts.                                      *)
RefCtrExact == \A b \in Block : ~Free(b) /\ ~Owned(b) => refCtr[b] = References(b)

(* A block is free, or owned by the one context that created it, or        *)
(* referenced, and never two of these: no event is used after it was       *)
(* recycled, recycled twice or leaked, and the pool counts its blocks.     *)
EachBlockAccounted ==
  /\ nFree = Len(freeList) /\ nMin <= nFree
  /\ \A b \in Block :
       /\ Occurrences(freeList, b) + Cardinality(Holders(new, b)) <= 1
       /\ (Free(b) \/ Owned(b)) <=> References(b) = 0

(* The assertions of QMPool_put and QActive_recall never fail.             *)
AssertionsHold == status # "failed"
=============================================================================
