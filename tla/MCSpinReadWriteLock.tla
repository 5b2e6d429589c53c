------------------------- MODULE MCSpinReadWriteLock -------------------------
(***************************************************************************)
(* The spin lock and the weak one for TLC, side by side: each runs while   *)
(* the other has not begun, so one run checks both and multiplies neither. *)
(***************************************************************************)
EXTENDS SpinReadWriteLock, TLC

VARIABLES read_cnt, write_flag, weakpc

Weak == INSTANCE WeakSpinReadWriteLock WITH pc <- weakpc
weakVars == <<read_cnt, write_flag, weakpc>>

LockInit == Init /\ Weak!Init
LockNext ==
    \/ Weak!Init /\ Next /\ UNCHANGED weakVars
    \/ Init /\ Weak!Next /\ UNCHANGED vars
LockSpec == LockInit /\ [][LockNext]_<<vars, weakVars>>

(* The weak lock's flag is up for the one writer that waits or writes, and  *)
(* its count is the number of its read sections (WeakSpinReadWriteLock).   *)
FlagIsOneWriter == Weak!FlagIsOneWriter
(* The weak lock implements WeakRWLock: only a reader caught between its   *)
(* test and its count shares it with a writer.                             *)
ImplementsLock == Weak!ImplementsLock

Symmetry == Permutations(Section) \cup Permutations(Writer)
=============================================================================
