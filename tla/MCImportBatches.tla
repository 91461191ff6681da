--------------------------- MODULE MCImportBatches ---------------------------
(* ImportBatches for TLC: a split seed file of three record codes, a file  *)
(* of two chunks uploaded in the browser, and an update that waits for     *)
(* both; or, without the seed file, an update of two chunks that waits for *)
(* a file of one.                                                          *)
EXTENDS ImportBatches

CONSTANTS seed, file, update, a0, b0, c0, f0, f1, u0, u1

MCBatch == {seed, file, update}
MCChunk == {a0, b0, c0, f0, f1, u0}
MCBatchOf == [c \in MCChunk |->
    CASE c \in {a0, b0, c0} -> seed [] c \in {f0, f1} -> file [] c = u0 -> update]
MCCode == [c \in MCChunk |->
    CASE c = a0 -> "100" [] c = b0 -> "110" [] c = c0 -> "120" [] OTHER -> "NULL"]
MCLine == [c \in MCChunk |-> <<MCBatchOf[c], MCCode[c]>>]
MCNumber == [c \in MCChunk |-> IF c = f1 THEN 1 ELSE 0]
MCCodeDependencies ==
    [code \in {MCCode[c] : c \in MCChunk} |-> IF code = "120" THEN {"100"} ELSE {}]
MCDependencies == [b \in MCBatch |-> IF b = update THEN {seed, file} ELSE {}]

PairBatch == {file, update}
PairChunk == {f0, u0, u1}
PairBatchOf == [c \in PairChunk |-> IF c = f0 THEN file ELSE update]
PairCode == [c \in PairChunk |-> "NULL"]
PairLine == [c \in PairChunk |-> <<PairBatchOf[c], "NULL">>]
PairNumber == [c \in PairChunk |-> IF c = u1 THEN 1 ELSE 0]
PairCodeDependencies == [code \in {"NULL"} |-> {}]
PairDependencies == [b \in PairBatch |-> IF b = update THEN {file} ELSE {}]
=============================================================================
