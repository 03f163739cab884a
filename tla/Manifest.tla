------------------------------ MODULE Manifest ------------------------------
(***************************************************************************)
(* manifest.json of one source, as the Stores opened over one root share   *)
(* it: the copy on disk, the copy each Store keeps in its *Source, and the *)
(* three ways they move.  AddSource reads the file, refreshes it, writes   *)
(* it back and attaches what it wrote, all under Store.mu.  Store.Source   *)
(* reads the file the first time and returns the attached value ever       *)
(* after.  widen, the last step of Fill and FillOverview, grows the copy   *)
(* in memory and writes that one out, under Source.mu: another lock.       *)
(*                                                                         *)
(* Of the manifest only the zoom range is modelled: the description fields *)
(* are overwritten by every AddSource with what it was given.  Source.mu   *)
(* is held for one read and write of the manifest with no other step under *)
(* it, so a widen is one action.                                           *)
(***************************************************************************)
EXTENDS Layout

CONSTANTS
    Stores,             \* the Store values opened over one root
    Adders,             \* the calls of AddSource that may be under way
    Lockers,            \* everyone who may hold a Store's mutex across steps
    StoreOf,            \* the Store each actor works on
    MaxZoom,            \* the deepest zoom a range may name
    Ranges,             \* the ranges fetches widen the slice by
    AddBesideWiden,     \* whether a source may be added while a fetch runs
    None                \* no file, no value, nobody

ASSUME RangesAssumption ==
    /\ MaxZoom \in Nat
    /\ Ranges \subseteq ZoomRange(MaxZoom)
    /\ \A z \in Ranges : ~IsEmpty(z)

ASSUME StoresAssumption ==
    /\ \A a \in Adders : StoreOf[a] \in Stores
    /\ Adders \subseteq Lockers
    /\ None \notin Lockers
    /\ None \notin ZoomRange(MaxZoom) \cup {EmptyZoom}

ASSUME AddBesideWidenAssumption == AddBesideWiden \in BOOLEAN

VARIABLES
    manifest,           \* the range in manifest.json, None before the file
    memory,             \* the range in each Store's *Source, None: not attached
    mu,                 \* who holds each Store's mutex across steps
    add                 \* the AddSource calls

manifestVars == <<manifest, memory, mu, add>>

SliceRange == ZoomRange(MaxZoom) \cup {EmptyZoom}

\* What each variable holds.  An AddSource under way is exactly one that holds
\* its Store's mutex and has read the manifest (slice.go, AddSource).
ManifestTypeOK ==
    /\ manifest \in SliceRange \cup {None}
    /\ memory \in [Stores -> SliceRange \cup {None}]
    /\ mu \in [Stores -> Lockers \cup {None}]
    /\ add \in [Adders -> [phase: {"idle", "write", "attach"},
                           read: SliceRange \cup {None}]]
    /\ \A a \in Adders :
        /\ (add[a].phase = "idle") <=> (add[a].read = None)
        /\ (add[a].phase # "idle") <=> (mu[StoreOf[a]] = a)

ManifestInit ==
    /\ manifest = None
    /\ memory = [s \in Stores |-> None]
    /\ mu = [s \in Stores |-> None]
    /\ add = [a \in Adders |-> [phase |-> "idle", read |-> None]]

-----------------------------------------------------------------------------
\* Store.Source: read manifest.json and attach it, once per Store.
OpenSource(s) ==
    /\ mu[s] = None
    /\ memory[s] = None
    /\ manifest # None
    /\ memory' = [memory EXCEPT ![s] = manifest]
    /\ UNCHANGED <<manifest, mu, add>>

\* Mutant of AddRead: the description given replaces what the store records.
AddReadForgets(a) ==
    /\ add[a].phase = "idle"
    /\ mu[StoreOf[a]] = None
    /\ mu' = [mu EXCEPT ![StoreOf[a]] = a]
    /\ add' = [add EXCEPT ![a] = [phase |-> "write", read |-> EmptyZoom]]
    /\ UNCHANGED <<manifest, memory>>

\* AddSource takes Store.mu and reads what the store already records; a source
\* it does not have starts from the empty range.
AddRead(a) ==
    LET s == StoreOf[a] IN
    /\ add[a].phase = "idle"
    /\ mu[s] = None
    /\ mu' = [mu EXCEPT ![s] = a]
    /\ add' = [add EXCEPT ![a] =
                  [phase |-> "write",
                   read |-> IF manifest = None THEN EmptyZoom ELSE manifest]]
    /\ UNCHANGED <<manifest, memory>>

\* AddSource writes the refreshed manifest, its range as it was read.
AddWrite(a) ==
    /\ add[a].phase = "write"
    /\ manifest' = add[a].read
    /\ add' = [add EXCEPT ![a].phase = "attach"]
    /\ UNCHANGED <<memory, mu>>

\* attach: the Source this Store hands out now holds what was written, and
\* AddSource returns, giving the mutex back.
Attach(a) ==
    LET s == StoreOf[a] IN
    /\ add[a].phase = "attach"
    /\ memory' = [memory EXCEPT ![s] = add[a].read]
    /\ mu' = [mu EXCEPT ![s] = None]
    /\ add' = [add EXCEPT ![a] = [phase |-> "idle", read |-> None]]
    /\ UNCHANGED manifest

\* AddSource gives up: the file could not be read or written, or the archive's
\* compression is not the one the store holds.
AddFail(a) ==
    /\ add[a].phase = "write"
    /\ mu' = [mu EXCEPT ![StoreOf[a]] = None]
    /\ add' = [add EXCEPT ![a] = [phase |-> "idle", read |-> None]]
    /\ UNCHANGED <<manifest, memory>>

\* widen: grow the range in memory and write the result out when it changed.
Widen(s, z) ==
    LET next == UnionOf(memory[s], z) IN
    /\ memory[s] # None
    /\ IF next = memory[s]
       THEN UNCHANGED <<manifest, memory>>
       ELSE manifest' = next /\ memory' = [memory EXCEPT ![s] = next]
    /\ UNCHANGED <<mu, add>>

\* A fetch lands tiles of z and widens the slice.  AddBesideWiden decides
\* whether it may do so while this Store is inside AddSource.
FetchWidens(s, z) ==
    /\ AddBesideWiden \/ \A a \in Adders : add[a].phase = "idle"
    /\ Widen(s, z)

\* The process holding Store s ends, and another opens the root again.
Reopen(s) ==
    /\ memory' = [memory EXCEPT ![s] = None]
    /\ mu' = [mu EXCEPT ![s] = None]
    /\ add' = [a \in Adders |-> IF StoreOf[a] = s
                                THEN [phase |-> "idle", read |-> None]
                                ELSE add[a]]
    /\ UNCHANGED manifest

ManifestNext ==
    \/ \E s \in Stores : OpenSource(s)
    \/ \E a \in Adders : AddRead(a)
    \/ \E a \in Adders : AddWrite(a)
    \/ \E a \in Adders : Attach(a)
    \/ \E a \in Adders : AddFail(a)
    \/ \E s \in Stores, z \in Ranges : FetchWidens(s, z)
    \/ \E s \in Stores : Reopen(s)

ManifestSpec == ManifestInit /\ [][ManifestNext]_manifestVars

-----------------------------------------------------------------------------
\* One Store alone never disagrees with its file: whatever it has attached is
\* what manifest.json says, except between AddSource's write and its attach
\* (slice.go, Source: "two callers cannot hold two manifests for one directory
\* and write them over each other").
MemoryMatchesDisk ==
    \A s \in Stores :
        \/ memory[s] = None
        \/ memory[s] = manifest
        \/ \E a \in Adders : StoreOf[a] = s /\ add[a].phase = "attach"

\* The range a slice records is only ever widened, by Fill, as tiles land
\* (slice.go, AddSource; fill.go, widen: "It only ever grows").
RangeOnlyGrows ==
    [][manifest # None => Covers(manifest', manifest)]_manifestVars
=============================================================================
