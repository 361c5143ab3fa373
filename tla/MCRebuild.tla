----------------------------- MODULE MCRebuild -----------------------------
(***************************************************************************)
(* Small instances of Rebuild: two programs that host.mk compiles, each    *)
(* from one source that may include two headers.  Of the first the         *)
(* compiler may fail and make be interrupted; of the second fixdep may     *)
(* fail too and make be killed, which part it from its .cmd file.  They    *)
(* have no file in common, so a behaviour is one of the one or the other.  *)
(***************************************************************************)
EXTENDS Rebuild

CONSTANTS h1, h2, NewCommands, AllFaults

MCHeaders == {h1, h2}

VARIABLES
  program,  \* "described" or "parted"
  pUses, pCmd, pObj, pObjCmd, pObjUses, pChanged, pNewer,  \* of the second,
  pCmdFile, pEnded, pSeen, pPc, pLast                      \* as in Rebuild

Parted == INSTANCE Rebuild WITH
  Commands <- NewCommands, Faults <- AllFaults,
  uses <- pUses, cmd <- pCmd, obj <- pObj, objCmd <- pObjCmd, objUses <- pObjUses,
  changed <- pChanged, newer <- pNewer, cmdFile <- pCmdFile, ended <- pEnded,
  seen <- pSeen, pc <- pPc, last <- pLast

parted == <<pUses, pCmd, pObj, pObjCmd, pObjUses, pChanged, pNewer, pCmdFile,
            pEnded, pSeen, pPc, pLast>>
all == <<program, vars, parted>>

BothInit == program \in {"described", "parted"} /\ Init /\ Parted!Init

First == program = "described" /\ Next /\ UNCHANGED <<program, parted>>
Second == program = "parted" /\ Parted!Next /\ UNCHANGED <<program, vars>>

BothSpec == BothInit /\ [][First \/ Second]_all

(* As stated in Rebuild, of the program whose fixdep may fail and whose    *)
(* make may be killed: the .cmd file of an earlier compilation still tells *)
(* make of every edit of a file it names.                                  *)
PartedMissesOnlyNew == Parted!OnlyNewHeadersAreMissed
=============================================================================
