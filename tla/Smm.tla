----------------------------------- MODULE Smm -----------------------------------
(***************************************************************************)
(* System management mode: the chipset and the SmmEngine of                *)
(* packages/ntsim/src/smm.mjs.  Ring-0 code writes SMRAMC through the ports *)
(* CF8/CFC and latches an SMI through port B2; the host enters SMM, runs   *)
(* the handler and resumes.  While SMRAM is closed the access guard keeps  *)
(* ring 0 out of it.                                                       *)
(*                                                                         *)
(* A context stands for all registers and rip.  The save areas and the     *)
(* handler pages are kept per SMBASE.  Names begin with Smm.               *)
(***************************************************************************)
EXTENDS Naturals

CONSTANTS
  SmmBases,    \* values of SMBASE
  SmmTseg,     \* those that lie in TSEG
  SmmContexts, \* contexts ring 0 and the handlers run with
  SmmMaxSmis   \* bound: SMIs entered

ASSUME SmmAssumption ==
  /\ SmmTseg \subseteq SmmBases /\ SmmTseg # {}
  /\ SmmMaxSmis \in Nat

VARIABLES
  smmC,        \* SMRAMC: D_OPEN, D_LCK and G_SMRAME
  smmCf8,      \* the register the last write to CF8 selected
  smmPending,  \* chipset.smiPending
  smmIn,       \* inSmm
  smmBase,     \* currentSmbase
  smmArea,     \* the save area at each base: the context and the SMBASE field
  smmCode,     \* the handler page at each base
  smmCpu,      \* the context of the cpu
  smmRaised,   \* stats.raised
  smmDepth,    \* ghost: SMIs entered and neither resumed nor failed
  smmOwed,     \* ghost: the context the SMI in progress should resume
  smmSealed    \* ghost: SMRAM was locked closed before ring 0 patched it

smmVars == <<smmC, smmCf8, smmPending, smmIn, smmBase, smmArea, smmCode, smmCpu,
             smmRaised, smmDepth, smmOwed, smmSealed>>

-----------------------------------------------------------------------------
SmmRegisters == {"none", "smramc", "tsegmb"}
SmmBits == [open : BOOLEAN, lck : BOOLEAN, g : BOOLEAN]

\* A cleared slot and a context nobody can foretell.
SmmZero == "zero"
SmmUnknown == "unknown"

\* inTseg and isSmramVisibleFromRing0: with decoding off SMRAM is plain memory.
SmmVisible(c) == ~c.g \/ c.open

\* The guard lets an access to base through.
SmmOpenTo(base) == base \notin SmmTseg \/ SmmVisible(smmC) \/ smmIn

\* Mutant: the lock does not cover D_OPEN.
SmmWrittenOpen(c, v) == IF c.lck THEN [v EXCEPT !.lck = TRUE] ELSE v

\* The setter of smramc: under D_LCK, D_OPEN reads zero and D_LCK sticks.
SmmWritten(c, v) == IF c.lck THEN [v EXCEPT !.open = FALSE, !.lck = TRUE] ELSE v

-----------------------------------------------------------------------------
\* Power-on: enabled, closed and unlocked; the first base gets its save area.
SmmInit ==
  /\ smmC = [open |-> FALSE, lck |-> FALSE, g |-> TRUE]
  /\ smmCf8 = "none" /\ smmPending = FALSE /\ smmIn = FALSE
  /\ smmBase \in SmmTseg
  /\ smmArea = [b \in SmmBases |->
       [ctx |-> SmmZero, base |-> IF b = smmBase THEN b ELSE SmmZero]]
  /\ smmCode = [b \in SmmBases |-> SmmZero]
  /\ smmCpu \in SmmContexts
  /\ smmRaised = 0 /\ smmDepth = 0
  /\ smmOwed = SmmUnknown /\ smmSealed = FALSE

\* Ring-0 code or a handler runs and changes the registers.
SmmRun(ctx) ==
  /\ smmCpu' = ctx
  /\ UNCHANGED <<smmC, smmCf8, smmPending, smmIn, smmBase, smmArea, smmCode, smmRaised,
                 smmDepth, smmOwed, smmSealed>>

\* OUT to CF8 selects a register.
SmmOutCf8(reg) ==
  /\ smmCf8' = reg
  /\ UNCHANGED <<smmC, smmPending, smmIn, smmBase, smmArea, smmCode, smmCpu, smmRaised,
                 smmDepth, smmOwed, smmSealed>>

\* OUT to CFC.  Only SMRAMC can be written: for any other register of the host
\* bridge #cfcWrite passes setCfg two arguments of five and the step throws.
SmmOutCfc(v) ==
  LET c == SmmWritten(smmC, v)
      patched == \E b \in SmmTseg : smmCode[b] = "patched"
  IN /\ smmCf8 = "smramc"
     /\ smmC' = c
     /\ smmSealed' = (c.g /\ (smmSealed \/ (c.lck /\ ~c.open /\ ~patched)))
     /\ UNCHANGED <<smmCf8, smmPending, smmIn, smmBase, smmArea, smmCode, smmCpu, smmRaised,
                    smmDepth, smmOwed>>

\* OUT of 1 to APMC latches an SMI.
SmmOutApmc ==
  /\ smmPending' = TRUE
  /\ UNCHANGED <<smmC, smmCf8, smmIn, smmBase, smmArea, smmCode, smmCpu, smmRaised, smmDepth,
                 smmOwed, smmSealed>>

\* Ring-0 code writes a handler page the guard does not hide.
SmmPatch(base) ==
  /\ ~smmIn /\ SmmOpenTo(base)
  /\ smmCode' = [smmCode EXCEPT ![base] = "patched"]
  /\ UNCHANGED <<smmC, smmCf8, smmPending, smmIn, smmBase, smmArea, smmCpu, smmRaised,
                 smmDepth, smmOwed, smmSealed>>

\* smiEnter: the context goes into the save area.  An SMI entered while another
\* is being handled overwrites the area of the first.
SmmEnter ==
  /\ smmPending /\ smmRaised < SmmMaxSmis
  /\ smmPending' = FALSE /\ smmIn' = TRUE
  /\ smmRaised' = smmRaised + 1
  /\ smmArea' = [smmArea EXCEPT ![smmBase] = [ctx |-> smmCpu, base |-> smmBase]]
  /\ smmDepth' = smmDepth + 1
  /\ smmOwed' = IF smmDepth = 0 THEN smmCpu ELSE SmmUnknown
  /\ UNCHANGED <<smmC, smmCf8, smmBase, smmCode, smmCpu, smmSealed>>

\* A handler writes the saved context, to resume elsewhere (saveWrite does it for
\* the host), or the SMBASE field, to relocate.
SmmSaveContext(ctx) ==
  /\ smmDepth > 0 /\ SmmOpenTo(smmBase)
  /\ smmArea' = [smmArea EXCEPT ![smmBase].ctx = ctx]
  /\ smmOwed' = IF smmOwed = SmmUnknown THEN SmmUnknown ELSE ctx
  /\ UNCHANGED <<smmC, smmCf8, smmPending, smmIn, smmBase, smmCode, smmCpu, smmRaised,
                 smmDepth, smmSealed>>

SmmSaveBase(base) ==
  /\ smmDepth > 0 /\ SmmOpenTo(smmBase)
  /\ smmArea' = [smmArea EXCEPT ![smmBase].base = base]
  /\ UNCHANGED <<smmC, smmCf8, smmPending, smmIn, smmBase, smmCode, smmCpu, smmRaised,
                 smmDepth, smmOwed, smmSealed>>

\* populateSaveArea: the handler page and the saved context are cleared.
SmmPopulated(base) == [ctx |-> SmmZero, base |-> base]

\* Mutant: the relocation comes before the context is restored.
SmmExitLate ==
  LET moved == smmArea[smmBase].base
  IN /\ smmDepth > 0
     /\ smmBase' = moved
     /\ smmArea' = IF moved = smmBase THEN smmArea
                   ELSE [smmArea EXCEPT ![moved] = SmmPopulated(moved)]
     /\ smmCpu' = smmArea'[moved].ctx
     /\ smmCode' = IF moved = smmBase THEN smmCode
                   ELSE [smmCode EXCEPT ![moved] = SmmZero]
     /\ smmIn' = FALSE /\ smmDepth' = smmDepth - 1 /\ smmOwed' = SmmUnknown
     /\ UNCHANGED <<smmC, smmCf8, smmPending, smmRaised, smmSealed>>

\* smiExit: the context comes from the area the SMI was entered with; a moved
\* SMBASE field sticks, and the handler page at the new base is cleared.
SmmExit ==
  LET moved == smmArea[smmBase].base
  IN /\ smmDepth > 0
     /\ smmCpu' = smmArea[smmBase].ctx
     /\ smmIn' = FALSE
     /\ smmBase' = moved
     /\ smmArea' = IF moved = smmBase THEN smmArea
                   ELSE [smmArea EXCEPT ![moved] = SmmPopulated(moved)]
     /\ smmCode' = IF moved = smmBase THEN smmCode
                   ELSE [smmCode EXCEPT ![moved] = SmmZero]
     /\ smmDepth' = smmDepth - 1
     /\ smmOwed' = SmmUnknown
     /\ UNCHANGED <<smmC, smmCf8, smmPending, smmRaised, smmSealed>>

\* smiDispatch when the handler throws: SMM ends, nothing is restored.
SmmThrow ==
  /\ smmDepth > 0
  /\ smmIn' = FALSE /\ smmDepth' = smmDepth - 1 /\ smmOwed' = SmmUnknown
  /\ UNCHANGED <<smmC, smmCf8, smmPending, smmBase, smmArea, smmCode, smmCpu, smmRaised,
                 smmSealed>>

\* The SMBASE field is 32 bits of whatever was written; a base outside SmmBases
\* is left out.
SmmNext ==
  \/ \E ctx \in SmmContexts : SmmRun(ctx) \/ SmmSaveContext(ctx)
  \/ \E reg \in SmmRegisters : SmmOutCf8(reg)
  \/ \E v \in SmmBits : SmmOutCfc(v)
  \/ SmmOutApmc \/ SmmEnter \/ SmmExit \/ SmmThrow
  \/ \E b \in SmmBases : SmmPatch(b) \/ SmmSaveBase(b)

SmmSpec == SmmInit /\ [][SmmNext]_smmVars

-----------------------------------------------------------------------------
SmmTypeOK ==
  /\ smmC \in SmmBits /\ smmCf8 \in SmmRegisters
  /\ smmPending \in BOOLEAN /\ smmIn \in BOOLEAN /\ smmBase \in SmmBases
  /\ smmArea \in [SmmBases -> [ctx : SmmContexts \cup {SmmZero},
                               base : SmmBases \cup {SmmZero}]]
  /\ smmCode \in [SmmBases -> {SmmZero, "patched"}]
  /\ smmCpu \in SmmContexts \cup {SmmZero}
  /\ smmRaised \in 0..SmmMaxSmis /\ smmDepth \in 0..SmmMaxSmis
  /\ smmOwed \in SmmContexts \cup {SmmZero, SmmUnknown} /\ smmSealed \in BOOLEAN

\* RSM resumes the context the SMI interrupted, with what was written to the
\* saved registers since, also when the handler moved SMBASE: the area at the
\* new base is cleared by the same call.
SmmResumes == [][SmmExit /\ smmOwed # SmmUnknown => smmCpu' = smmOwed]_smmVars

\* Once SMRAM is locked closed, with decoding on, before ring 0 patched a handler
\* in TSEG, no sequence of config writes, SMIs and relocations lets ring 0 patch
\* one, until it turns decoding off, which the lock does not cover.
SmmSealHolds == smmSealed => \A b \in SmmTseg : smmCode[b] # "patched"

===============================================================================
