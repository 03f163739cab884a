----------------------------- MODULE TileCaches -----------------------------
(***************************************************************************)
(* The caches of tiles that goroutines share: dem.Source (grids of         *)
(* heights), render.TileCache (vector tiles) and perspective.Tiles (drawn  *)
(* tiles).  All three are a map of entries and a list of them, most        *)
(* recently used first, under one mutex.  The first to ask for a tile      *)
(* enters it, reads it with the mutex let go and closes the entry's        *)
(* channel; whoever asks meanwhile waits for that and shares what came of  *)
(* it, an error included.  They differ in when they evict: dem and         *)
(* perspective by count, as an entry is made; render by bytes, once a tile *)
(* is read and its size known.                                             *)
(*                                                                         *)
(* An entry is named by the ask that made it.  What is read or drawn is    *)
(* its outcome only: a tile, the answer that there is none, or an error.   *)
(***************************************************************************)
EXTENDS Integers, Sequences, SequencesExt, FiniteSetsExt

CONSTANTS
    Asks,               \* the calls of get, Heights or tile, each made once
    Tiles,
    Forms,              \* the caches considered
    Limit,              \* entries kept, or bytes
    Overhead,           \* bytes counted for any tile kept
    Decoded,            \* bytes counted besides for each tile
    MaxFailures,        \* bound: how many reads fail by themselves
    None

ByBytes == {"render"}
WithContext == {"perspective"}

ASSUME CacheAssumption ==
    /\ Forms \subseteq {"dem", "render", "perspective"}
    /\ Limit \in Nat \ {0}
    /\ Overhead \in Nat
    /\ Decoded \in [Tiles -> Nat]
    /\ MaxFailures \in Nat
    /\ None \notin Asks /\ None \notin Tiles
    /\ None \notin {"tile", "absent", "failed"}

VARIABLES
    form,               \* which of the caches this is
    entries,            \* the map: each tile's entry
    lru,                \* the list of entries, most recently used first
    used,               \* the bytes counted
    ask,                \* each call: how far it is, its tile, its entry
    outcome,            \* what the reading of each entry came to
    size,               \* the bytes each entry counts for
    closed,             \* the entries whose channel is closed
    interrupted,        \* whether the context of the draws is done
    failures            \* how many reads failed by themselves

listVars == <<entries, lru, used, size>>
cacheVars == <<form, entries, lru, used, ask, outcome, size, closed,
               interrupted, failures>>

Idle == [phase |-> "idle", tile |-> None, entry |-> None]

CacheInit ==
    /\ form \in Forms
    /\ entries = [k \in Tiles |-> None]
    /\ lru = <<>>
    /\ used = 0
    /\ ask = [i \in Asks |-> Idle]
    /\ outcome = [i \in Asks |-> None]
    /\ size = [i \in Asks |-> 0]
    /\ closed = {}
    /\ interrupted = FALSE
    /\ failures = 0

\* The list without an entry that is in it.
Unlisted(e) == RemoveAt(lru, CHOOSE n \in DOMAIN lru : lru[n] = e)

To(i, phase) == ask' = [ask EXCEPT ![i].phase = phase]

\* What is left of the map when the entries of some asks are dropped.
WithoutEntries(map, dropped) ==
    [k \in Tiles |->
        IF \E e \in dropped : ask[e].tile = k THEN None ELSE map[k]]

\* The bytes counted for a set of entries, with the sizes sz.
Bytes(sz, S) == MapThenSumSet(LAMBDA e : sz[e], S)

-----------------------------------------------------------------------------
(* Asking: one hold of the mutex.                                          *)

\* The tile is kept or being read: it becomes the most recently used, and
\* its entry is waited for.
Hit(i, k) ==
    /\ ask[i].phase = "idle"
    /\ entries[k] # None
    /\ lru' = <<entries[k]>> \o Unlisted(entries[k])
    /\ ask' = [ask EXCEPT ![i] =
                  [phase |-> "waiting", tile |-> k, entry |-> entries[k]]]
    /\ UNCHANGED <<form, entries, used, outcome, size, closed, interrupted,
                   failures>>

\* The tile is not: an entry is made for it.  Where the limit is a count,
\* the least recently used beyond it go, being read or not.
Miss(i, k) ==
    /\ ask[i].phase = "idle"
    /\ entries[k] = None
    /\ LET longer == <<i>> \o lru
           kept == IF form \in ByBytes \/ Len(longer) <= Limit THEN longer
                   ELSE SubSeq(longer, 1, Limit)
           dropped == ToSet(longer) \ ToSet(kept)
       IN  /\ lru' = kept
           /\ entries' = WithoutEntries([entries EXCEPT ![k] = i], dropped)
    /\ ask' = [ask EXCEPT ![i] =
                  [phase |-> "reading", tile |-> k, entry |-> i]]
    /\ UNCHANGED <<form, used, outcome, size, closed, interrupted, failures>>

Ask(i) == \E k \in Tiles : Hit(i, k) \/ Miss(i, k)

-----------------------------------------------------------------------------
(* Reading, with the mutex let go.                                         *)

Reads(i, result) ==
    /\ ask[i].phase = "reading"
    /\ outcome' = [outcome EXCEPT ![i] = result]
    /\ To(i, "read")
    /\ UNCHANGED <<form, listVars, closed, interrupted>>

ReadTile(i) ==
    /\ \/ Reads(i, "tile")
       \/ form # "perspective" /\ Reads(i, "absent")
    /\ UNCHANGED failures

\* A read fails: the source fails or the tile is damaged, or the context of
\* a draw is done.
ReadFails(i) ==
    /\ \/ failures < MaxFailures /\ failures' = failures + 1
       \/ form \in WithContext /\ interrupted /\ UNCHANGED failures
    /\ Reads(i, "failed")

-----------------------------------------------------------------------------
(* What was read is kept or not: one hold of the mutex.                    *)

\* Mutant of Forget: the entry leaves the map and stays in the list.
ForgetButListed(i) ==
    /\ ask[i].phase = "read"
    /\ outcome[i] = "failed"
    /\ entries' = [entries EXCEPT ![ask[i].tile] = IF @ = i THEN None ELSE @]
    /\ To(i, "settled")
    /\ UNCHANGED <<form, lru, used, outcome, size, closed, interrupted,
                   failures>>

\* A failed read is not kept, if its entry is still the tile's.
Forget(i) ==
    /\ ask[i].phase = "read"
    /\ outcome[i] = "failed"
    /\ IF entries[ask[i].tile] = i
       THEN /\ lru' = Unlisted(i)
            /\ entries' = [entries EXCEPT ![ask[i].tile] = None]
       ELSE UNCHANGED <<lru, entries>>
    /\ To(i, "settled")
    /\ UNCHANGED <<form, used, outcome, size, closed, interrupted, failures>>

\* How many of the list stay when bytes are counted in total, sz each: the
\* last go until what is left fits, or the last is the one just read.
Staying(i, total, sz) ==
    CHOOSE n \in 0..Len(lru) :
        LET fits(m) == total - Bytes(sz, ToSet(SubSeq(lru, m + 1, Len(lru))))
                          <= Limit
            stops(m) == fits(m) \/ (m > 0 /\ lru[m] = i)
        IN  stops(n) /\ \A m \in n + 1 .. Len(lru) : ~stops(m)

\* Mutant of Count: whether the tile's entry is still this one is not asked.
CountAnyway(i) ==
    /\ form \in ByBytes
    /\ ask[i].phase = "read"
    /\ outcome[i] # "failed"
    /\ IF entries[ask[i].tile] # None
       THEN LET bytes == Overhead + IF outcome[i] = "tile"
                                    THEN Decoded[ask[i].tile] ELSE 0
                sz == [size EXCEPT ![i] = bytes]
                n == Staying(entries[ask[i].tile], used + bytes, sz)
                dropped == ToSet(SubSeq(lru, n + 1, Len(lru)))
            IN  /\ size' = sz
                /\ lru' = SubSeq(lru, 1, n)
                /\ entries' = WithoutEntries(entries, dropped)
                /\ used' = used + bytes - Bytes(sz, dropped)
       ELSE UNCHANGED listVars
    /\ To(i, "settled")
    /\ UNCHANGED <<form, outcome, closed, interrupted, failures>>

\* Where the limit is in bytes, a tile is counted once read, if its entry is
\* still the tile's, and the least recently used go.
Count(i) ==
    /\ form \in ByBytes
    /\ ask[i].phase = "read"
    /\ outcome[i] # "failed"
    /\ IF entries[ask[i].tile] = i
       THEN LET bytes == Overhead + IF outcome[i] = "tile"
                                    THEN Decoded[ask[i].tile] ELSE 0
                sz == [size EXCEPT ![i] = bytes]
                n == Staying(i, used + bytes, sz)
                dropped == ToSet(SubSeq(lru, n + 1, Len(lru)))
            IN  /\ size' = sz
                /\ lru' = SubSeq(lru, 1, n)
                /\ entries' = WithoutEntries(entries, dropped)
                /\ used' = used + bytes - Bytes(sz, dropped)
       ELSE UNCHANGED listVars
    /\ To(i, "settled")
    /\ UNCHANGED <<form, outcome, closed, interrupted, failures>>

\* Mutants of Close: a failed read answers before it is forgotten, or returns
\* without closing its entry.
CloseFirst(i) ==
    /\ ask[i].phase \in {"read", "settled"}
    /\ closed' = closed \cup {i}
    /\ To(i, "answered")
    /\ UNCHANGED <<form, listVars, outcome, interrupted, failures>>

CloseUnlessFailed(i) ==
    /\ \/ ask[i].phase = "settled"
       \/ /\ ask[i].phase = "read"
          /\ outcome[i] # "failed"
          /\ form \notin ByBytes
    /\ closed' = IF outcome[i] = "failed" THEN closed ELSE closed \cup {i}
    /\ To(i, "answered")
    /\ UNCHANGED <<form, listVars, outcome, interrupted, failures>>

\* close(e.done), and the reader's own answer.  dem and perspective take the
\* mutex only for a failed read.
Close(i) ==
    /\ \/ ask[i].phase = "settled"
       \/ /\ ask[i].phase = "read"
          /\ outcome[i] # "failed"
          /\ form \notin ByBytes
    /\ closed' = closed \cup {i}
    /\ To(i, "answered")
    /\ UNCHANGED <<form, listVars, outcome, interrupted, failures>>

\* <-e.done, and the answer of whoever waited.
Answer(i) ==
    /\ ask[i].phase = "waiting"
    /\ ask[i].entry \in closed
    /\ To(i, "answered")
    /\ UNCHANGED <<form, listVars, outcome, closed, interrupted, failures>>

\* Whoever wanted the draws no longer does.
Interrupt ==
    /\ ~interrupted
    /\ interrupted' = TRUE
    /\ UNCHANGED <<form, listVars, ask, outcome, closed, failures>>

-----------------------------------------------------------------------------

Goes(i) ==
    ReadTile(i) \/ ReadFails(i) \/ Forget(i) \/ Count(i) \/ Close(i)
        \/ Answer(i)

CacheNext == (\E i \in Asks : Ask(i) \/ Goes(i)) \/ Interrupt

CacheSpec == CacheInit /\ [][CacheNext]_cacheVars

\* What a call answers: what the reading of its entry came to.
AnswerOf(i) == outcome[ask[i].entry]

Kept == {entries[k] : k \in Tiles} \ {None}

=============================================================================
