---------------------------- MODULE SpxCadOracle ----------------------------
(***************************************************************************)
(* The contract that publishes the price of the coin (SpxCadOracle.sol).   *)
(* It stores one rate for each block of three hours since its inception.   *)
(* Blocks follow New York time: an offset moves those after it when the    *)
(* clocks there change.  A transaction that reverts is an action that is   *)
(* not enabled.  Its owner's resetTo and clearAllData are left out: they   *)
(* unpublish rates.                                                        *)
(***************************************************************************)
EXTENDS Integers, Sequences

CONSTANT Block    \* BLOCK_TIME

ASSUME OracleAssumption == Block \in Nat \ {0}

VARIABLES now,
          rates,      \* the rate of each block
          offsets     \* the offsets, in the order in which they were pushed

Offset == [from : Int, offset : Int]

\* Mutant: an offset counts from the moment at which it is pushed.
OffsetLatest(t) == IF offsets = <<>> THEN 0 ELSE offsets[Len(offsets)].offset

\* The offset pushed last of those that have taken effect by moment t.
GetOffset(t) ==
    LET taken == {i \in DOMAIN offsets : offsets[i].from <= t}
    IN IF taken = {} THEN 0
       ELSE offsets[CHOOSE i \in taken : \A j \in taken : j <= i].offset

\* Which rate is that of moment t, counted from 0.
GetBlockIndexFor(t) == (t - GetOffset(t)) \div Block

\* getRoundFromTimestamp throws for the moments that have no rate yet.
Readable(t) == GetBlockIndexFor(t) \in 0 .. Len(rates) - 1
RateAt(t) == rates[GetBlockIndexFor(t) + 1]

\* The end of the last block, with the offset that is in effect now.
ValidUntil == GetOffset(now) + Len(rates) * Block

LastOffsetFrom == IF offsets = <<>> THEN 0 ELSE offsets[Len(offsets)].from

\* One more rate, once those there are expire, at that moment too: the two
\* minutes that the contract allows before it are less than the unit of time.
CanUpdate == ValidUntil <= now

\* Several, but not beyond the block that has just begun.
CanBulkUpdate(values) == ValidUntil + Len(values) * Block <= now + Block

CanPush(values) == IF Len(values) = 1 THEN CanUpdate ELSE CanBulkUpdate(values)

UpdateOffset(offset) == offsets' = Append(offsets, offset)
=============================================================================
