----------------------------- MODULE MemoryPlan -----------------------------
(***************************************************************************)
(* Storage reuse between the internal buffers of a stateless plan          *)
(* (MemoryPlan.cpp) and the ordering edges that make it safe               *)
(* (StorageHazards.cpp), followed by a run of the tasks in any order the   *)
(* edges allow: two buffers of one slot share memory, and only the edges   *)
(* keep a late reader or a late writer of the old one from the new one.    *)
(*                                                                         *)
(* Stages are numbered in plan order and each writes one buffer, named     *)
(* after it.  Sizes and addresses count elements.                          *)
(***************************************************************************)
EXTENDS Integers, FiniteSets, Sequences

CONSTANTS
    Program,   \* what the planner may be given, see ProgramAssumption
    Policy,    \* memory_reuse: subset of {"greedy", "l2"}
    Alignment  \* slot sizes are multiples of this many elements

\* A program: for each stage, the task that writes each element of its result,
\* the class of its buffer (element type, fill and halo layout), and the
\* buffers it reads; the stages whose tasks read their inputs whole,
\* and not only the elements they write; those without an exact element access;
\* and the outputs of the plan.
ASSUME ProgramAssumption ==
    /\ Policy \subseteq {"greedy", "l2"}
    /\ Alignment \in Nat \ {0}
    /\ \A p \in Program :
          /\ p.owner \in Seq(Seq(Nat) \ {<<>>})
          /\ p.layout \in [DOMAIN p.owner -> Nat]
          /\ p.reads \in [DOMAIN p.owner -> SUBSET DOMAIN p.owner]
          /\ \A s \in DOMAIN p.owner, b \in DOMAIN p.owner : b \in p.reads[s] => b < s

VARIABLES
    program, policy,
    next,         \* the stage whose buffer is placed next
    slots,        \* the slots of the arena
    aliases,      \* the address of each buffer that is in the arena
    arena_bytes,  \* the size of the arena
    hazards,      \* the edges PlanBufferReuse returned
    done,         \* tasks that have run
    memory        \* per address, the buffer whose element was written there last

planVars == <<next, slots, aliases, arena_bytes, hazards>>
runVars == <<done, memory>>
memoryVars == <<program, policy, planVars, runVars>>

Stage == DOMAIN program.owner

-----------------------------------------------------------------------------
(* What each task writes and reads. *)

Elements(b) == DOMAIN program.owner[b]
TasksOf(s) == {<<s, program.owner[s][e]>> : e \in Elements(s)}
Task == UNION {TasksOf(s) : s \in Stage}

Writes(t) == {e \in Elements(t[1]) : program.owner[t[1]][e] = t[2]}
Reads(t, b) ==
    IF b \notin program.reads[t[1]] THEN {}
    ELSE IF t[1] \in program.whole \cup program.inexact THEN Elements(b)
    ELSE Writes(t) \cap Elements(b)

Readers(b) == {s \in Stage : b \in program.reads[s]}
AllReads(b) == UNION {Reads(t, b) : t \in Task}

\* The lifetime of a buffer is that of the stages that access it.
Lifetime(b) == {b} \cup Readers(b)
Over_InPlace(b, s) == \A r \in Lifetime(b) : r <= s
Over(b, s) == \A r \in Lifetime(b) : r < s

\* A buffer may share storage when all that write or read it have an exact
\* access, and it is not an output.
Reusable(b) ==
    /\ b \notin program.outputs
    /\ Lifetime(b) \cap program.inexact = {}

-----------------------------------------------------------------------------
(* DeriveStorageReuseHazards. *)

\* A reader of the old buffer comes before the writer of the same element.
WAR(old, new) ==
    {x \in Task \X TasksOf(new) : Reads(x[1], old) \cap Writes(x[2]) # {}}

\* An element of the old buffer nobody reads needs its writer first.
WAW(old, new) ==
    {x \in TasksOf(old) \X TasksOf(new) :
        (Writes(x[1]) \ AllReads(old)) \cap Writes(x[2]) # {}}

StorageHazards(old, new) == WAR(old, new) \cup WAW(old, new)

-----------------------------------------------------------------------------
(* PlanBufferReuse. *)

Size(b) == Len(program.owner[b])
Align(n) == ((n + Alignment - 1) \div Alignment) * Alignment

\* Buffers of one element type and fill, and of one halo layout if any has a halo.
Compatible(a, b) == program.layout[a] = program.layout[b]

\* The slots whose occupant is over when b begins, that are large enough, and
\* that hold buffers of its kind.
Fitting(b) ==
    {s \in slots : Over(s.occupant, b) /\ Size(b) <= s.size /\ Compatible(s.occupant, b)}

\* Greedy takes the first that fits, l2 the first of the smallest.
Selected(s, fitting) ==
    \A r \in fitting :
        \/ policy = "l2" /\ s.size < r.size
        \/ (policy = "l2" => s.size = r.size) /\ s.offset <= r.offset

Retained_Newest(history, b) == {}

\* What the history keeps of a slot: what the new buffer does not cover.
Retained(history, b) ==
    {h \in history : ~ (Elements(h) \cup AllReads(h) \subseteq Elements(b))}

\* The buffer gets its address; nothing runs before the plan is made.
PlaceAt(address) ==
    /\ aliases' = [b \in DOMAIN aliases \cup {next} |-> IF b = next THEN address ELSE aliases[b]]
    /\ next' = next + 1
    /\ UNCHANGED <<program, policy, runVars>>

KeepApart ==
    /\ next \in Stage /\ ~ Reusable(next)
    /\ next' = next + 1
    /\ UNCHANGED <<program, policy, slots, aliases, arena_bytes, hazards, runVars>>

OpenSlot ==
    /\ next \in Stage /\ Reusable(next)
    /\ Fitting(next) = {}
    /\ slots' = slots \cup {[offset |-> arena_bytes, size |-> Align(Size(next)),
                             occupant |-> next, history |-> {next}]}
    /\ arena_bytes' = arena_bytes + Align(Size(next))
    /\ PlaceAt(arena_bytes)
    /\ UNCHANGED hazards

ReuseSlot ==
    /\ next \in Stage /\ Reusable(next)
    /\ \E s \in Fitting(next) :
          /\ Selected(s, Fitting(next))
          /\ hazards' = hazards \cup UNION {StorageHazards(h, next) : h \in s.history}
          /\ slots' = (slots \ {s}) \cup
                {[offset |-> s.offset, size |-> s.size, occupant |-> next,
                  history |-> Retained(s.history, next) \cup {next}]}
          /\ PlaceAt(s.offset)
    /\ UNCHANGED arena_bytes

-----------------------------------------------------------------------------
(* A run of the tasks: the derived edges and the hazards order them. *)

Planned == next \notin Stage

Couplings == {x \in Task \X Task : Writes(x[1]) \cap Reads(x[2], x[1][1]) # {}}
Ready(t) ==
    /\ t \in Task \ done
    /\ \A q \in Task : <<q, t>> \in Couplings \cup hazards => q \in done

Address(b, e) == aliases[b] + e - 1
Cells(t) == {Address(b, e) : b \in {t[1]} \cap DOMAIN aliases, e \in Writes(t)}

Run(t) ==
    /\ Planned /\ Ready(t)
    /\ done' = done \cup {t}
    /\ memory' = [x \in DOMAIN memory \cup Cells(t) |-> IF x \in Cells(t) THEN t[1] ELSE memory[x]]
    /\ UNCHANGED <<program, policy, planVars>>

MemoryInit ==
    /\ program \in Program /\ policy \in Policy
    /\ next = 1
    /\ slots = {} /\ aliases = <<>> /\ arena_bytes = 0 /\ hazards = {}
    /\ done = {} /\ memory = <<>>

MemoryNext ==
    \/ KeepApart \/ OpenSlot \/ ReuseSlot
    \/ \E t \in Task : Run(t)

MemorySpec == MemoryInit /\ [][MemoryNext]_memoryVars

-----------------------------------------------------------------------------
(* Properties. *)

\* A task that may run finds in its inputs what their own writers left there,
\* whatever ran before it; nothing written after them shares their memory.
InputsIntact ==
    Planned =>
        \A t \in {u \in Task : Ready(u)}, b \in DOMAIN aliases :
            \A e \in Reads(t, b) :
                Address(b, e) \in DOMAIN memory /\ memory[Address(b, e)] = b

\* The edges of reuse close no cycle with those of the data: until every task
\* has run, one of them may.
EdgesAcyclic == Planned /\ done # Task => \E t \in Task : Ready(t)
=============================================================================
