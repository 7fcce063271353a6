------------------------------ MODULE RandTool ------------------------------
(***************************************************************************)
(* CRandTool: the Mersenne twister behind sRandTool, an instance every     *)
(* thread may reach and no lock guards.                                    *)
(*                                                                         *)
(* A word of the state is named by its place in the sequence of its seed:  *)
(* x_0 .. x_N-1 come from init_genrand, and x_k+N is made of x_k, x_k+1    *)
(* and x_k+M; one made of any other three is Junk.  Tempering, a bijection *)
(* of words, is left out.                                                  *)
(***************************************************************************)
EXTENDS Singleton

CONSTANTS
    N, M,          \* words of the state, distance of the recurrence
    Seeds,         \* seeds users set
    DefaultSeed,   \* 5489
    MaxAt,         \* bound: places up to which blocks are regenerated
    W              \* 2^w, for words of w bits

ASSUME SizeAssumption == N \in Nat /\ M \in 1..(N - 1)
ASSUME MaxAtAssumption == MaxAt \in Nat
ASSUME WordAssumption == W \in Nat \ {0}

VARIABLES
    mt, mti, m_dwRandSeed,
    rpc, kk,       \* where each thread is in its call, and its loop index
    seeding,       \* the seed each thread is putting in
    \* history
    expect,        \* the word after the last one drawn, Junk if there is none
    inOrder,       \* has each word drawn been the one after the last
    overlapped     \* have two calls been under way at once

generator == <<mt, mti, m_dwRandSeed>>
calls == <<rpc, kk, seeding>>
drawn == <<expect, inOrder, overlapped>>
randvars == <<instance, generator, calls, drawn>>

AllSeeds == Seeds \cup {DefaultSeed}
Word(s, k) == [seed |-> s, at |-> k]
Junk == Word(DefaultSeed, -1)
Words == [seed: AllSeeds, at: Nat] \cup {Junk}
After1(x) == [x EXCEPT !.at = @ + 1]

\* The constructor; mt is left as it is.
RandInit ==
    /\ SingletonInit
    /\ mt = [i \in 0..(N - 1) |-> Junk]
    /\ mti = N + 1
    /\ m_dwRandSeed = DefaultSeed
    /\ rpc = [u \in Users |-> "idle"]
    /\ kk = [u \in Users |-> 0]
    /\ seeding = [u \in Users |-> DefaultSeed]
    /\ expect = Junk /\ inOrder = TRUE /\ overlapped = FALSE

\* A thread that has the instance begins a call, maybe during another's.
Begin(u, pc) ==
    /\ u \in Ready /\ rpc[u] = "idle"
    /\ rpc' = [rpc EXCEPT ![u] = pc]
    /\ kk' = [kk EXCEPT ![u] = 0]
    /\ overlapped' = (overlapped \/ \E v \in Users : rpc[v] # "idle")

SetSeed(u) ==
    /\ \E s \in Seeds : seeding' = [seeding EXCEPT ![u] = s]
    /\ Begin(u, "seed")
    /\ UNCHANGED <<generator, expect, inOrder>>

\* One round of init_genrand's loop: x_i is made of x_i-1 and i.
Seeded(u, i) ==
    IF i = 0 THEN Word(seeding[u], 0)
    ELSE IF mt[i - 1].at = i - 1 THEN After1(mt[i - 1]) ELSE Junk

InitGenrand(u, from, to) ==
    /\ rpc[u] = from
    /\ mt' = [mt EXCEPT ![kk[u]] = Seeded(u, kk[u])]
    /\ kk' = [kk EXCEPT ![u] = (@ + 1) % N]
    /\ rpc' = IF kk[u] = N - 1 THEN [rpc EXCEPT ![u] = to] ELSE rpc
    /\ UNCHANGED <<mti, seeding, drawn>>

\* SetSeed leaves mti alone: the words are drawn on from there, and those of
\* the first draw are replaced.
SetSeedEnd(u) ==
    /\ rpc[u] = "seeded"
    /\ m_dwRandSeed' = seeding[u]
    /\ expect' = Junk
    /\ rpc' = [rpc EXCEPT ![u] = "idle"]
    /\ UNCHANGED <<mt, mti, kk, seeding, inOrder, overlapped>>

\* RandInt and RandFloat: genrand_int32 up to its test of mti.
GenrandInt32(u) ==
    /\ \A i \in 0..(N - 1) : mt[i].at <= MaxAt
    /\ Begin(u, IF mti = N + 1 THEN "init" ELSE IF mti >= N THEN "twist" ELSE "take")
    /\ seeding' = [seeding EXCEPT ![u] = DefaultSeed]
    /\ UNCHANGED <<generator, expect, inOrder>>

\* What the three loops put in mt[i].
Twisted(i) ==
    LET x == mt[i] IN
    IF x # Junk /\ mt[(i + 1) % N] = After1(x) /\ mt[(i + M) % N] = [x EXCEPT !.at = @ + M]
    THEN [x EXCEPT !.at = @ + N] ELSE Junk

\* Mutant: the block is not started.
TwistNoStart(u) ==
    /\ rpc[u] = "twist"
    /\ mt' = [mt EXCEPT ![kk[u]] = Twisted(kk[u])]
    /\ kk' = [kk EXCEPT ![u] = (@ + 1) % N]
    /\ rpc' = IF kk[u] = N - 1 THEN [rpc EXCEPT ![u] = "take"] ELSE rpc
    /\ UNCHANGED <<mti, m_dwRandSeed, seeding, drawn>>

\* One round; the last one also starts the block.
Twist(u) ==
    /\ rpc[u] = "twist"
    /\ mt' = [mt EXCEPT ![kk[u]] = Twisted(kk[u])]
    /\ kk' = [kk EXCEPT ![u] = (@ + 1) % N]
    /\ IF kk[u] = N - 1
       THEN mti' = 0 /\ rpc' = [rpc EXCEPT ![u] = "take"]
       ELSE UNCHANGED <<mti, rpc>>
    /\ UNCHANGED <<m_dwRandSeed, seeding, drawn>>

\* mt[(mti++) % N].
Take(u) ==
    /\ rpc[u] = "take"
    /\ LET y == mt[mti % N] IN
          /\ inOrder' = (inOrder /\ y # Junk /\ expect \in {Junk, y})
          /\ expect' = After1(y)
    /\ mti' = mti + 1
    /\ rpc' = [rpc EXCEPT ![u] = "idle"]
    /\ UNCHANGED <<mt, m_dwRandSeed, kk, seeding, overlapped>>

Use(u) ==
    \/ SetSeed(u) \/ SetSeedEnd(u) \/ GenrandInt32(u) \/ Twist(u) \/ Take(u)
    \/ InitGenrand(u, "seed", "seeded") /\ UNCHANGED m_dwRandSeed
    \/ InitGenrand(u, "init", "twist") /\ UNCHANGED m_dwRandSeed

RandNext == \E u \in Users :
    \/ Instance(u) /\ UNCHANGED <<generator, calls, drawn>>
    \/ Use(u) /\ UNCHANGED instance

-----------------------------------------------------------------------------
(* RandInt, as a function of the word r drawn for it. *)

\* A word as an int: the upper half is negative.
Signed(x) == IF x < W \div 2 THEN x ELSE x - W

\* Mutant: the number of values is one too many.
RankWide(min, max) == Signed((max - min + 2) % W)

\* int rank = max - min + 1.
Rank(min, max) == Signed((max - min + 1) % W)

\* The product is one of words of 2w bits.
Offset(r, rank) == (((r * rank) % (W * W)) \div W) % W

RandInt(min, max, r) ==
    IF min > max THEN (max + Offset(r, Rank(max, min))) % W
    ELSE (min + Offset(r, Rank(min, max))) % W

-----------------------------------------------------------------------------
(* Properties. *)

RandTypeOK ==
    /\ mt \in [0..(N - 1) -> Words]
    /\ mti \in Nat
    /\ m_dwRandSeed \in AllSeeds
    /\ rpc \in [Users -> {"idle", "seed", "seeded", "init", "twist", "take"}]
    /\ kk \in [Users -> 0..(N - 1)]
    /\ seeding \in [Users -> AllSeeds]
    /\ expect \in Words /\ inOrder \in BOOLEAN /\ overlapped \in BOOLEAN

\* As long as no two calls overlap, every number is the word after the last
\* one drawn, the first one and the first after SetSeed excepted, through every
\* regeneration of the block in place, and mti is never again the mark of a
\* generator not yet used (RandTool.cpp:49-75).
StreamInOrder ==
    /\ RandTypeOK
    /\ ~overlapped => inOrder /\ (mti = N + 1 => expect = Junk)

\* The seed GetSeed reports is that of the sequence numbers are drawn from
\* (RandTool.h:9-10, the comment of SetSeed at RandTool.cpp:17).
SeedTakesEffect ==
    ~overlapped => \A u \in Users : rpc[u] = "take" => mt[mti % N].seed = m_dwRandSeed

\* The number RandInt is about to make of the word it takes, whatever word
\* that is, is in the range asked for, and every number of the range may be,
\* in either order of the arguments, for ranges an int can count; a full
\* range counts as empty and gives its least value (RandTool.cpp:24-35).
RangeExact(min, max) ==
    /\ max - min + 1 < W \div 2 =>
          /\ \A r \in 0..(W - 1) : RandInt(min, max, r) \in min..max
          /\ \A v \in min..max : \E r \in 0..(W - 1) :
                RandInt(min, max, r) = v /\ RandInt(max, min, r) = v
    /\ max - min + 1 = W => \A r \in 0..(W - 1) : RandInt(min, max, r) = min

RandIntInRange ==
    (\E u \in Users : rpc[u] = "take") =>
        \A min, max \in 0..(W - 1) : min <= max => RangeExact(min, max)
=============================================================================
