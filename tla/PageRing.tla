------------------------------ MODULE PageRing ------------------------------
(***************************************************************************)
(* The shared-memory page ring of a paged CTA.  One loader warp fills the  *)
(* pages of a stream of tasks in sequence; the compute warps drain them,   *)
(* each at its own pace.  Sequence s lives in slot s % Pages for its whole *)
(* generation.  A slot has two mbarriers, `full` and `empty`, that are     *)
(* waited on by one parity bit, and a generation tag the loader writes     *)
(* once it owns the slot: a warp may ask for a page two generations ahead  *)
(* of what the slot holds, where the parity alone would say yes.           *)
(*                                                                         *)
(* The compute warps also meet at CTA barriers inside and between tasks;   *)
(* these only order them further and are left out.                         *)
(***************************************************************************)
EXTENDS Integers, Sequences, FiniteSets, Mbarrier

CONSTANTS
    Pages,      \* slots of the ring
    Streams     \* what a CTA may be given to run: see PageStream

(***************************************************************************)
(* How a task uses the ring: its waves, the pages it acquires before it    *)
(* fills any (group), the warps that share a page (owners), and whether a  *)
(* page is held until the next one has been consumed (hold).  A stream is  *)
(* a compute warp count and the tasks they run.                            *)
(***************************************************************************)
PageTask == [waves : Nat \ {0}, group : 1 .. Pages, owners : Nat \ {0}, hold : BOOLEAN]
PageStream == [warps : Nat \ {0}, tasks : Seq(PageTask)]

RingConstants ==
    /\ Pages \in Nat \ {0}
    /\ Streams \subseteq PageStream
    /\ \A m \in Streams : \A i \in DOMAIN m.tasks :
          LET t == m.tasks[i]
          IN  /\ m.warps % t.owners = 0
              /\ t.group > 1 => t.owners = m.warps
              /\ t.hold => t.group = 1 /\ t.owners = m.warps /\ Pages >= 2

ASSUME RingAssumption == RingConstants

VARIABLES
    stream,       \* the stream of this launch
    acquired,     \* pages the loader has acquired
    published,    \* pages the loader has published
    generation,   \* per slot: its tag
    landing,      \* per slot: published, its copies still in flight
    content,      \* per slot: what its bytes are a complete copy of
    fullPhases,   \* per slot: phases its full barrier has completed
    empties,      \* per slot: warp arrivals at its empty barrier so far
    at,           \* per warp: task, wave, and page of its group
    warpPc        \* per warp: "tag", "full", "read", "release" or "done"

loaderVars == <<acquired, published>>
slotVars == <<generation, landing, content, fullPhases, empties>>
ringVars == <<stream, loaderVars, slotVars, at, warpPc>>

Warps == stream.warps
Tasks == stream.tasks
Warp == 0 .. (Warps - 1)
PageSlot == 0 .. (Pages - 1)

PagesPerWave(t) == t.group * (Warps \div t.owners)

\* The first sequence number of each task, and of what follows the last.
First[i \in 1 .. (Len(Tasks) + 1)] ==
    IF i = 1 THEN 0 ELSE First[i - 1] + Tasks[i - 1].waves * PagesPerWave(Tasks[i - 1])

Sequence == 0 .. (First[Len(Tasks) + 1] - 1)

TaskOf(s) == CHOOSE i \in DOMAIN Tasks : First[i] <= s /\ s < First[i + 1]

\* The pages the loader acquires together with s.
GroupOf(s) ==
    LET i == TaskOf(s)
        from == First[i] + ((s - First[i]) \div Tasks[i].group) * Tasks[i].group
    IN  from .. (from + Tasks[i].group - 1)

\* PageOf: the page a warp starts from in a wave of task i.
PageOf(i, w, wave) ==
    LET t == Tasks[i]
    IN  First[i] + wave * PagesPerWave(t) + (w \div t.owners) * t.group

\* Mutant: one arrival of each owner, however few they are.
ReleaseArrivalsOne(s) == 1

\* Arrivals of one owner, so that the owners' together are one per warp.
ReleaseArrivals(s) == Warps \div Tasks[TaskOf(s)].owners

SlotIndex(s) == s % Pages
PagePhase(s) == (s \div Pages) % 2

-----------------------------------------------------------------------------
NoPage == -1

\* Every compute warp arrives at every empty barrier: all slots are free.
Initialize ==
    /\ acquired = 0 /\ published = 0
    /\ generation = [p \in PageSlot |-> NoPage]
    /\ landing = [p \in PageSlot |-> FALSE]
    /\ content = [p \in PageSlot |-> NoPage]
    /\ fullPhases = [p \in PageSlot |-> 0]
    /\ empties = [p \in PageSlot |-> Warps]

RingInit ==
    /\ stream \in Streams
    /\ Initialize
    /\ at = [w \in Warp |-> [task |-> 1, wave |-> 0, page |-> 0]]
    /\ warpPc = [w \in Warp |-> IF Tasks = <<>> THEN "done" ELSE "tag"]

-----------------------------------------------------------------------------
(***************************************************************************)
(* The loader.                                                             *)
(***************************************************************************)

EmptyReady(s) == PhaseDone(empties[SlotIndex(s)] \div Warps, PagePhase(s))

\* Wait for the slot, tag it, start writing into it.
AcquireEmpty ==
    /\ acquired \in Sequence
    /\ \A s \in Sequence : s < acquired /\ s \notin GroupOf(acquired) => s < published
    /\ EmptyReady(acquired)
    /\ acquired' = acquired + 1
    /\ generation' = [generation EXCEPT ![SlotIndex(acquired)] = acquired]
    /\ content' = [content EXCEPT ![SlotIndex(acquired)] = NoPage]
    /\ UNCHANGED <<stream, published, landing, fullPhases, empties, at, warpPc>>

\* Hand the page's arrival at `full` to its copies.
Publish ==
    /\ published \in Sequence
    /\ \A s \in GroupOf(published) : s < acquired
    /\ published' = published + 1
    /\ landing' = [landing EXCEPT ![SlotIndex(published)] = TRUE]
    /\ UNCHANGED <<stream, acquired, generation, content, fullPhases, empties, at, warpPc>>

\* The copies land, in any order between slots, and the barrier completes.
LandPage(p) ==
    /\ landing[p]
    /\ landing' = [landing EXCEPT ![p] = FALSE]
    /\ content' = [content EXCEPT ![p] = generation[p]]
    /\ fullPhases' = [fullPhases EXCEPT ![p] = @ + 1]
    /\ UNCHANGED <<stream, loaderVars, generation, empties, at, warpPc>>

-----------------------------------------------------------------------------
(***************************************************************************)
(* A compute warp.                                                         *)
(***************************************************************************)
Cursor(w) == PageOf(at[w].task, w, at[w].wave) + at[w].page

WarpTask(w) == Tasks[at[w].task]

\* Mutant: full is waited on by parity alone.
TagMatchesAny(w) == TRUE

TagMatches(w) == generation[SlotIndex(Cursor(w))] = Cursor(w)

\* AwaitFull, first half: spin on the tag.
AwaitTag(w) ==
    /\ warpPc[w] = "tag"
    /\ TagMatches(w)
    /\ warpPc' = [warpPc EXCEPT ![w] = "full"]
    /\ UNCHANGED <<stream, loaderVars, slotVars, at>>

\* AwaitFull, second half: wait for the parity.  The group is then read at once.
AwaitFull(w) ==
    /\ warpPc[w] = "full"
    /\ PhaseDone(fullPhases[SlotIndex(Cursor(w))], PagePhase(Cursor(w)))
    /\ IF at[w].page + 1 < WarpTask(w).group
       THEN /\ at' = [at EXCEPT ![w].page = @ + 1]
            /\ warpPc' = [warpPc EXCEPT ![w] = "tag"]
       ELSE /\ at' = [at EXCEPT ![w].page = 0]
            /\ warpPc' = [warpPc EXCEPT ![w] = "read"]
    /\ UNCHANGED <<stream, loaderVars, slotVars>>

LastWave(w) == at[w].wave + 1 = WarpTask(w).waves

\* On to the next wave, the next task, or out of the loop.
Advance(w) ==
    IF ~LastWave(w)
    THEN /\ at' = [at EXCEPT ![w].wave = @ + 1, ![w].page = 0]
         /\ warpPc' = [warpPc EXCEPT ![w] = "tag"]
    ELSE /\ at' = [at EXCEPT ![w] = [task |-> @.task + 1, wave |-> 0, page |-> 0]]
         /\ warpPc' = [warpPc EXCEPT ![w] = IF at[w].task = Len(Tasks) THEN "done" ELSE "tag"]

Release(s) == empties' = [empties EXCEPT ![SlotIndex(s)] = @ + ReleaseArrivals(s)]

\* A body that does not hold pages goes on to release its group.
EndRead(w) ==
    /\ warpPc[w] = "read"
    /\ ~WarpTask(w).hold
    /\ warpPc' = [warpPc EXCEPT ![w] = "release"]
    /\ UNCHANGED <<stream, loaderVars, slotVars, at>>

ReleasePage(w) ==
    /\ warpPc[w] = "release"
    /\ ~WarpTask(w).hold
    /\ Release(Cursor(w))
    /\ IF at[w].page + 1 < WarpTask(w).group
       THEN at' = [at EXCEPT ![w].page = @ + 1] /\ UNCHANGED warpPc
       ELSE Advance(w)
    /\ UNCHANGED <<stream, loaderVars, generation, landing, content, fullPhases>>

\* A pipelined body gives back the page before the one it has just consumed.
EndHeldRead(w) ==
    /\ warpPc[w] = "read"
    /\ WarpTask(w).hold
    /\ IF at[w].wave > 0 THEN Release(Cursor(w) - 1) ELSE UNCHANGED empties
    /\ IF LastWave(w)
       THEN warpPc' = [warpPc EXCEPT ![w] = "release"] /\ UNCHANGED at
       ELSE Advance(w)
    /\ UNCHANGED <<stream, loaderVars, generation, landing, content, fullPhases>>

\* ... and the last page when the task ends.
ReleaseHeld(w) ==
    /\ warpPc[w] = "release"
    /\ WarpTask(w).hold
    /\ Release(Cursor(w))
    /\ Advance(w)
    /\ UNCHANGED <<stream, loaderVars, generation, landing, content, fullPhases>>

-----------------------------------------------------------------------------
LoaderStep == AcquireEmpty \/ Publish

WarpStep(w) ==
    \/ AwaitTag(w) \/ AwaitFull(w)
    \/ EndRead(w) \/ ReleasePage(w)
    \/ EndHeldRead(w) \/ ReleaseHeld(w)

RingNext ==
    \/ LoaderStep
    \/ \E p \in PageSlot : LandPage(p)
    \/ \E w \in Warp : WarpStep(w)

RingSpec == RingInit /\ [][RingNext]_ringVars

AnyWarp == UNION {0 .. (m.warps - 1) : m \in Streams}

\* Resident warps keep being scheduled; an issued copy arrives.
RingFairSpec ==
    /\ RingSpec
    /\ WF_ringVars(LoaderStep)
    /\ \A p \in PageSlot : WF_ringVars(LandPage(p))
    /\ \A w \in AnyWarp : WF_ringVars(w \in Warp /\ WarpStep(w))

-----------------------------------------------------------------------------

\* The pages a warp may touch: the part of its group it has waited for, and in
\* a pipelined body the page before, whose products are still in flight.
Held(w) ==
    IF warpPc[w] = "done" THEN {}
    ELSE LET base == PageOf(at[w].task, w, at[w].wave)
             waited == CASE warpPc[w] = "read" -> base .. (base + WarpTask(w).group - 1)
                         [] warpPc[w] = "release" -> (base + at[w].page) .. (base + WarpTask(w).group - 1)
                         [] OTHER -> base .. (base + at[w].page - 1)
         IN  waited \cup (IF WarpTask(w).hold /\ at[w].wave > 0 /\ warpPc[w] # "release"
                          THEN {base - 1} ELSE {})

\* A page that a warp holds is a complete copy of the sequence it asked for,
\* and the loader does not write into it before the warp has let go.
PageIntact == \A w \in Warp : \A s \in Held(w) : content[SlotIndex(s)] = s

\* Every page is loaded and every warp reads through to the end of the stream.
PagesAllRead == <>(\A w \in Warp : warpPc[w] = "done")
=============================================================================
