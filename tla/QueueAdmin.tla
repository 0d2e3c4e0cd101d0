----------------------------- MODULE QueueAdmin -----------------------------
(***************************************************************************)
(* Queues come and go, and their names in the registry: the functions of   *)
(* queue.c that create a queue, a mutex or a counting semaphore, delete    *)
(* it, and add, look up and remove a name.  Nothing protects the registry: *)
(* a task may be preempted between any two of its accesses.  The name and  *)
(* the handle of a queue are the affair of the task that created it.       *)
(***************************************************************************)
EXTENDS Naturals, FiniteSets

CONSTANTS
  Task,
  Handle,       \* what pvPortMalloc may return
  Names,
  Requests,     \* what is asked for: kind, length, item size, initial count
  RegistrySize, \* configQUEUE_REGISTRY_SIZE
  Header,       \* sizeof(Queue_t)
  Word,         \* SIZE_MAX + 1
  None

QueueAdminAssumption ==
  /\ RegistrySize \in Nat \ {0} /\ Header \in Nat \ {0} /\ Word \in Nat /\ Word > Header
  /\ \A r \in Requests :
       /\ r.length \in 0 .. Word - 1 /\ r.item \in 0 .. Word - 1
       /\ r.initial \in 0 .. Word - 1
       /\ r.kind \in {"queue", "mutex", "semaphore"}
       /\ r.kind = "mutex" => r.length = 1 /\ r.item = 0
       /\ r.kind = "semaphore" => r.item = 0

VARIABLES
  queue,        \* the queues there are, by their handles
  registry,     \* xQueueRegistry
  pc, own,      \* per task: where it is, and the queue it has created
  local,        \* per task: ux, pxEntryToWrite and pcQueueName
  named,        \* history: the name under which it has put its queue there
  told,         \* history: what pcQueueGetName returned
  overlapped    \* history: two tasks have changed the registry at once

vars == <<queue, registry, pc, own, named, told, overlapped>>

Slots == 1 .. RegistrySize
NoQueue == [kind |-> "none"]

Changing(t) == pc[t] \in {"add", "name", "handle", "unregister", "unname", "unhandle"}

NoLocals == [ux |-> 1, entry |-> 0, name |-> None]

Go(t, to) ==
  /\ pc' = [pc EXCEPT ![t] = to]
  /\ local' = IF to = "out" THEN [local EXCEPT ![t] = NoLocals] ELSE local

-----------------------------------------------------------------------------
(* The checks of xQueueGenericCreate, with its overflow checks, ...        *)
Possible(r) ==
  /\ r.length > 0
  /\ (Word - 1) \div r.length >= r.item
  /\ (Word - 1) - Header >= (r.length * r.item) % Word

(* ... those of the counting semaphore, ...                                *)
Countable(r) ==
  r.kind = "semaphore" => r.length # 0 /\ r.initial <= r.length

(* ... the size that is asked for, and prvInitialiseNewQueue,              *)
(* prvInitialiseMutex and the semaphore's count.                           *)
Asked(r) == (Header + (r.length * r.item)) % Word

Initialised(r) ==
  [kind |-> r.kind, length |-> r.length, item |-> r.item, bytes |-> Asked(r),
   waiting |-> CASE r.kind = "queue" -> 0
                 [] r.kind = "mutex" -> 1
                 [] r.kind = "semaphore" -> r.initial]

(* Mistake: the product is not checked.                                    *)
CreateUnchecked(t, r) ==
  /\ pc[t] = "out" /\ own[t] = None
  /\ r.length > 0 /\ Countable(r)
  /\ (Word - 1) - Header >= (r.length * r.item) % Word
  /\ \E h \in {x \in Handle : queue[x] = NoQueue} :
       queue' = [queue EXCEPT ![h] = Initialised(r)] /\ own' = [own EXCEPT ![t] = h]
  /\ UNCHANGED <<registry, pc, local, named, told, overlapped>>

(* xQueueGenericCreate, xQueueCreateMutex, xQueueCreateCountingSemaphore:  *)
(* nothing is created when a check fails or there is no memory.            *)
Create(t, r) ==
  /\ pc[t] = "out" /\ own[t] = None
  /\ Possible(r) /\ Countable(r)
  /\ \E h \in {x \in Handle : queue[x] = NoQueue} :
       queue' = [queue EXCEPT ![h] = Initialised(r)] /\ own' = [own EXCEPT ![t] = h]
  /\ UNCHANGED <<registry, pc, local, named, told, overlapped>>

-----------------------------------------------------------------------------
(* A function that goes through the registry begins; name is what is to be *)
(* written, if any.                                                        *)
Begin(t, to, name) ==
  /\ pc[t] = "out" /\ own[t] # None
  /\ pc' = [pc EXCEPT ![t] = to]
  /\ local' = [local EXCEPT ![t] = [NoLocals EXCEPT !.name = name]]
  /\ overlapped' = (overlapped \/ (to # "look" /\ \E u \in Task \ {t} : Changing(u)))
  /\ UNCHANGED <<queue, registry, own, named, told>>

AddBegin(t, n) == Begin(t, "add", n)
UnregisterBegin(t) == Begin(t, "unregister", None)
GetNameBegin(t) == Begin(t, "look", None)

Following(t) == UNCHANGED pc /\ local' = [local EXCEPT ![t].ux = @ + 1]

(* vQueueAddToRegistry: the queue's own entry, or else the first that is   *)
(* free.  When there is none, the name is not kept.                        *)
AddSearch(t) ==
  /\ pc[t] = "add"
  /\ LET ux == local[t].ux
     IN IF ux \notin Slots
        THEN Go(t, IF local[t].entry = 0 THEN "out" ELSE "name")
        ELSE IF registry[ux].handle = own[t]
        THEN /\ pc' = [pc EXCEPT ![t] = "name"]
             /\ local' = [local EXCEPT ![t].entry = ux]
        ELSE /\ UNCHANGED pc
             /\ local' = [local EXCEPT ![t].ux = @ + 1,
                  ![t].entry = IF @ = 0 /\ registry[ux].name = None THEN ux ELSE @]
  /\ UNCHANGED <<queue, registry, own, named, told, overlapped>>

AddName(t) ==
  /\ pc[t] = "name"
  /\ registry' = [registry EXCEPT ![local[t].entry].name = local[t].name]
  /\ Go(t, "handle")
  /\ UNCHANGED <<queue, own, named, told, overlapped>>

AddHandle(t) ==
  /\ pc[t] = "handle"
  /\ registry' = [registry EXCEPT ![local[t].entry].handle = own[t]]
  /\ named' = [named EXCEPT ![t] = local[t].name]
  /\ Go(t, "out")
  /\ UNCHANGED <<queue, own, told, overlapped>>

-----------------------------------------------------------------------------
(* pcQueueGetName.                                                         *)
GetNameSearch(t) ==
  /\ pc[t] = "look"
  /\ IF local[t].ux \notin Slots
     THEN told' = [told EXCEPT ![t] = None] /\ Go(t, "told")
     ELSE IF registry[local[t].ux].handle = own[t]
     THEN Go(t, "read") /\ UNCHANGED told
     ELSE Following(t) /\ UNCHANGED told
  /\ UNCHANGED <<queue, registry, own, named, overlapped>>

GetNameRead(t) ==
  /\ pc[t] = "read"
  /\ told' = [told EXCEPT ![t] = registry[local[t].ux].name]
  /\ Go(t, "told")
  /\ UNCHANGED <<queue, registry, own, named, overlapped>>

GetNameReturn(t) ==
  /\ pc[t] = "told"
  /\ told' = [told EXCEPT ![t] = None]
  /\ Go(t, "out")
  /\ UNCHANGED <<queue, registry, own, named, overlapped>>

-----------------------------------------------------------------------------
(* vQueueUnregisterQueue, at the beginning of vQueueDelete: the name first *)
(* and the handle next.                                                    *)
UnregisterSearch(t) ==
  /\ pc[t] = "unregister"
  /\ IF local[t].ux \notin Slots
     THEN Go(t, "free")
     ELSE IF registry[local[t].ux].handle = own[t]
     THEN Go(t, "unname")
     ELSE Following(t)
  /\ UNCHANGED <<queue, registry, own, named, told, overlapped>>

UnregisterName(t) ==
  /\ pc[t] = "unname"
  /\ registry' = [registry EXCEPT ![local[t].ux].name = None]
  /\ Go(t, "unhandle")
  /\ UNCHANGED <<queue, own, named, told, overlapped>>

(* Mistake: the handle stays in the entry that is free.                    *)
UnregisterHandleNot(t) ==
  /\ pc[t] = "unhandle"
  /\ named' = [named EXCEPT ![t] = None]
  /\ Go(t, "free")
  /\ UNCHANGED <<queue, registry, own, told, overlapped>>

UnregisterHandle(t) ==
  /\ pc[t] = "unhandle"
  /\ registry' = [registry EXCEPT ![local[t].ux].handle = None]
  /\ named' = [named EXCEPT ![t] = None]
  /\ Go(t, "free")
  /\ UNCHANGED <<queue, own, told, overlapped>>

(* vPortFree, at the end of vQueueDelete.                                  *)
Free(t) ==
  /\ pc[t] = "free"
  /\ queue' = [queue EXCEPT ![own[t]] = NoQueue]
  /\ own' = [own EXCEPT ![t] = None]
  /\ named' = [named EXCEPT ![t] = None]
  /\ Go(t, "out")
  /\ UNCHANGED <<registry, told, overlapped>>

-----------------------------------------------------------------------------
Init ==
  /\ queue = [h \in Handle |-> NoQueue]
  /\ registry = [s \in Slots |-> [name |-> None, handle |-> None]]
  /\ pc = [t \in Task |-> "out"] /\ own = [t \in Task |-> None]
  /\ local = [t \in Task |-> NoLocals] /\ named = [t \in Task |-> None]
  /\ told = [t \in Task |-> None]
  /\ overlapped = FALSE

Next ==
  \E t \in Task :
    \/ \E r \in Requests : Create(t, r)
    \/ \E n \in Names : AddBegin(t, n)
    \/ AddSearch(t) \/ AddName(t) \/ AddHandle(t)
    \/ GetNameBegin(t) \/ GetNameSearch(t) \/ GetNameRead(t) \/ GetNameReturn(t)
    \/ UnregisterBegin(t) \/ UnregisterSearch(t) \/ UnregisterName(t) \/ UnregisterHandle(t)
    \/ Free(t)

-----------------------------------------------------------------------------
(* A queue has the memory for all of its items, whatever was asked for,    *)
(* and no more in it than fits.                                            *)
QueuesFit ==
  \A h \in Handle :
    queue[h] # NoQueue =>
      /\ queue[h].bytes = Header + (queue[h].length * queue[h].item)
      /\ queue[h].waiting <= queue[h].length

(* No entry is of a queue that is gone, and no queue has two entries, even *)
(* when tasks change the registry at the same time: a handle is only       *)
(* written by the queue's own task.                                        *)
EntriesRight ==
  /\ \A s \in Slots : registry[s].handle # None => queue[registry[s].handle] # NoQueue
  /\ \A s, r \in Slots : registry[s].handle = registry[r].handle /\ s # r
       => registry[s].handle = None

(* As long as no two tasks change the registry at once, a queue that was   *)
(* given a name has it, and is told it, though others are changed          *)
(* meanwhile.  With two at once, both may take the same entry.             *)
NamesRight ==
  ~overlapped =>
    \A t \in Task :
      /\ named[t] # None /\ pc[t] \in {"out", "add", "look", "read", "told"} =>
           \E s \in Slots : registry[s] = [name |-> named[t], handle |-> own[t]]
      /\ pc[t] = "told" => told[t] = named[t]

QueueAdminRight == QueuesFit /\ EntriesRight /\ NamesRight
=============================================================================
