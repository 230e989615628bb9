------------------------------ MODULE CacheLab ------------------------------
(***************************************************************************)
(* The two programs of src/cachelab, the simulator and the transposes, and *)
(* the functions of src/datalab: they share nothing, and a behaviour is    *)
(* one of the simulator's, one of a transpose's, or one word for the       *)
(* puzzles.                                                                *)
(***************************************************************************)
EXTENDS CachePair, Transpose

VARIABLE word       \* the argument of the puzzles, or Unset

Puzzles == INSTANCE Bits WITH W <- 8, Exp <- 4, Frac <- 3

-----------------------------------------------------------------------------
LabInit == /\ PairInit
           /\ \/ TransInit /\ word = Unset
              \/ NoMatrix /\ word \in Puzzles!Words \cup {Unset}

Simulate == /\ routine = "none" /\ word = Unset
            /\ PairNext
            /\ UNCHANGED <<transVars, word>>

Turn == TransNext /\ UNCHANGED <<simVars, largeVars, word>>

LabNext == Simulate \/ Turn

LabSpec == LabInit /\ [][LabNext]_<<simVars, largeVars, transVars, word>>

-----------------------------------------------------------------------------
(* The puzzles do what their comments say: those that move bits, those     *)
(* that compute, overflow included, and those on floats, rounding and the  *)
(* ends of the range included.                                             *)
PuzzlesRight ==
  word # Unset => /\ Puzzles!MovesRight(word)
                  /\ Puzzles!ComputesRight(word)
                  /\ Puzzles!FloatsRight(word)
=============================================================================
