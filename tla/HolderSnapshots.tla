---------------------------- MODULE HolderSnapshots ----------------------------
(***************************************************************************)
(* usecase/holdersync with its real adapters (strategy_phase_f.go), the    *)
(* Data API's ListHolders, and the holderdelta strategy, for one outcome   *)
(* token.  A sync stores the top holders, each with its rank, its shares   *)
(* and its part in the open interest; what stands for the open interest is *)
(* the sum of the holders that were returned.  Rows are written one by one *)
(* up to the first failure.  A wallet that is no longer among the top      *)
(* keeps its last row as the current one.  The hook compares the last two  *)
(* rows of the alert's wallet.                                             *)
(***************************************************************************)
EXTENDS StagedInputs

CONSTANTS
    Holders,         \* wallet addresses
    Watched,         \* those alerts are about; the rows of the others are
                     \*   never asked for and left out
    MaxAmount,       \* bound: the shares a wallet may hold
    FetchTopK,       \* HOLDERSYNC_TOPK
    RequireOI,       \* HOLDERSYNC_REQUIRE_OPEN_INTEREST
    FreshMax,        \* OWNERSHIP_V2_FRESH_SNAPSHOT_MAX_AGE, in units
    InfoPercent,     \* OWNERSHIP_V2_MIN_PCT_OI_INFO, in percent
    TopK,            \* OWNERSHIP_V2_TOPK
    MinSharesDelta   \* OWNERSHIP_V2_MIN_SHARES_DELTA

ASSUME HoldersAssumption ==
    /\ Holders \subseteq Nat /\ IsFiniteSet(Holders)
    /\ MaxAmount \in Nat /\ FetchTopK \in Nat /\ FreshMax \in Nat

VARIABLES
    holding,  \* the shares every wallet holds
    snaps     \* watched wallet -> its snapshot rows, newest first, two at most

holderVars == <<holding, snaps>>

HoldersInit ==
    /\ holding = [w \in Holders |-> 0]
    /\ snaps = [w \in Watched |-> << >>]

\* A wallet buys or sells outside.
Holds(w, n) ==
    /\ n # holding[w]
    /\ holding' = [holding EXCEPT ![w] = n]
    /\ Background
    /\ UNCHANGED snaps

\* The API's answer: the holders in the order of their amounts, FetchTopK at
\* most.
ListHolders ==
    LET held == {w \in Holders : holding[w] > 0}
        list == InOrder(held, {p \in held \X held :
                                  \/ holding[p[1]] > holding[p[2]]
                                  \/ holding[p[1]] = holding[p[2]] /\ p[1] < p[2]})
    IN  SubSeq(list, 1, Min({FetchTopK, Len(list)}))

OpenInterest(list) == Total([i \in DOMAIN list |-> holding[list[i]]], DOMAIN list)

\* The rows of one snapshot, in the order of their ranks.
FetchHolders ==
    LET list == ListHolders
    IN  IF RequireOI /\ OpenInterest(list) = 0 THEN << >>
        ELSE [i \in DOMAIN list |->
                  [wallet |-> list[i],
                   snap |-> [rank |-> i, shares |-> holding[list[i]],
                             oi |-> OpenInterest(list), age |-> 0]]]

\* The rows of wallet w once the first n of a sync are written.  Two syncs of
\* one moment write the same row.
Stored(w, n) ==
    LET mine == {i \in 1 .. n : FetchHolders[i].wallet = w}
        kept == Kept(snaps[w], {i \in DOMAIN snaps[w] : snaps[w][i].age > 0})
    IN  IF mine = {} THEN snaps[w]
        ELSE <<FetchHolders[Min(mine)].snap>> \o SubSeq(kept, 1, Min({1, Len(kept)}))

\* A sync of the token; the n-th row is the last that is written.
SyncHolders ==
    /\ \E n \in 0 .. Len(FetchHolders) : snaps' = [w \in Watched |-> Stored(w, n)]
    /\ Background
    /\ UNCHANGED holding

\* The open interest shrank by more than a twentieth and the wallet did not
\* grow by half as much of its shares: the share in it is an artifact.
Artifact(cur, prev) ==
    LET shrunk == prev.oi - cur.oi
    IN  /\ prev.oi > 0
        /\ 20 * shrunk > prev.oi
        /\ 2 * (cur.shares - prev.shares) * prev.oi < shrunk * prev.shares

\* holderdelta's verdict on a pair of rows.
DeltaFires(cur, prev) ==
    /\ ~Artifact(cur, prev)
    /\ \/ cur.oi > 0 /\ 100 * cur.shares >= InfoPercent * cur.oi
       \/ /\ cur.rank <= TopK
          /\ prev.rank > TopK
          /\ cur.shares - prev.shares >= MinSharesDelta

HolderSnapshotPairForWallet(w) == Reads(<<"hsp", w>>, snaps[w], << >>)

\* The hook asks about an alert of wallet w: without a previous row, or with
\* a current one too old by now, there is no verdict.
AskHolders(w) ==
    /\ \E r \in HolderSnapshotPairForWallet(w) :
           Concludes(r, Verdict("holderdelta",
                                /\ Len(r.rows) = 2
                                /\ r.rows[1].age + r.age <= FreshMax
                                /\ DeltaFires(r.rows[1], r.rows[2]),
                                r.failed, r.rows))
    /\ UNCHANGED holderVars

HoldersElapse ==
    /\ \/ FrameMoves
       \/ \E w \in Watched : \E i \in DOMAIN snaps[w] : snaps[w][i].age <= FreshMax
    /\ FrameElapses
    /\ snaps' = [w \in Watched |->
                     [i \in DOMAIN snaps[w] |->
                          [snaps[w][i] EXCEPT !.age = Older(@, FreshMax + 1)]]]
    /\ UNCHANGED holding

HoldersNext ==
    \/ \E w \in Holders, n \in 0 .. MaxAmount : Holds(w, n)
    \/ SyncHolders
    \/ \E w \in Watched : AskHolders(w)
    \/ HoldersElapse

=============================================================================
