---------------------------- MODULE PlatformProofs -----------------------------
(***************************************************************************)
(* What TLAPS proves of the platform, SMM, the architecture state and the  *)
(* copies of memory under Unicorn, for every set of bases, registers,      *)
(* values and pages, and any number of SMIs, writes and runs; and of the   *)
(* processor and the machine together, as the instances of MCMachine       *)
(* compose them.                                                           *)
(***************************************************************************)
EXTENDS MCMachine, CpuProofs, MachineProofs, EnginesProofs

-----------------------------------------------------------------------------
(***************************************************************************)
(* SMM (Smm).                                                              *)
(***************************************************************************)

(***************************************************************************)
(* Types.                                                                  *)
(***************************************************************************)

\* What the types need of each other: an SMI in progress was counted, and the
\* SMBASE field at the current base is a base, to which RSM can go.
SmmTypeInv ==
  /\ SmmTypeOK
  /\ smmDepth <= smmRaised
  /\ smmArea[smmBase].base \in SmmBases

\* The setter of SMRAMC yields a register value.
LEMMA WrittenIsBits ==
  ASSUME NEW c \in SmmBits, NEW v \in SmmBits
  PROVE  SmmWritten(c, v) \in SmmBits
BY DEF SmmWritten, SmmBits

\* At power-on.
LEMMA SmmTypeInit == SmmInit => SmmTypeInv
<1> SUFFICES ASSUME SmmInit
             PROVE  SmmTypeInv
  OBVIOUS
<1>1. smmBase \in SmmBases
  BY SmmAssumption DEF SmmInit
<1>2. smmC \in SmmBits /\ smmCf8 \in SmmRegisters
  BY DEF SmmInit, SmmBits, SmmRegisters
<1>3. /\ smmArea \in [SmmBases -> [ctx : SmmContexts \cup {SmmZero},
                                   base : SmmBases \cup {SmmZero}]]
      /\ smmArea[smmBase].base = smmBase
  BY <1>1 DEF SmmInit
<1>4. smmCode \in [SmmBases -> {SmmZero, "patched"}]
  BY DEF SmmInit
<1>5. smmRaised \in 0..SmmMaxSmis /\ smmDepth \in 0..SmmMaxSmis /\ smmDepth <= smmRaised
  BY SmmAssumption DEF SmmInit
<1> QED
  BY <1>1, <1>2, <1>3, <1>4, <1>5 DEF SmmInit, SmmTypeInv, SmmTypeOK

\* Every step.
LEMMA SmmTypeNext == SmmTypeInv /\ [SmmNext]_smmVars => SmmTypeInv'
<1> SUFFICES ASSUME SmmTypeInv, [SmmNext]_smmVars
             PROVE  SmmTypeInv'
  OBVIOUS
<1> DEFINE Areas == [ctx : SmmContexts \cup {SmmZero}, base : SmmBases \cup {SmmZero}]
<1> USE DEF SmmTypeInv, SmmTypeOK
<1>1. ASSUME NEW ctx \in SmmContexts, SmmRun(ctx)
      PROVE  SmmTypeInv'
  BY <1>1 DEF SmmRun
<1>2. ASSUME NEW ctx \in SmmContexts, SmmSaveContext(ctx)
      PROVE  SmmTypeInv'
  <2>1. smmArea' \in [SmmBases -> Areas] /\ smmArea'[smmBase].base = smmArea[smmBase].base
    BY <1>2 DEF SmmSaveContext
  <2>2. smmOwed' \in SmmContexts \cup {SmmZero, SmmUnknown}
    BY <1>2 DEF SmmSaveContext
  <2> QED  BY <1>2, <2>1, <2>2 DEF SmmSaveContext
<1>3. ASSUME NEW reg \in SmmRegisters, SmmOutCf8(reg)
      PROVE  SmmTypeInv'
  BY <1>3 DEF SmmOutCf8
<1>4. ASSUME NEW v \in SmmBits, SmmOutCfc(v)
      PROVE  SmmTypeInv'
  <2>1. smmC' \in SmmBits
    BY <1>4, WrittenIsBits DEF SmmOutCfc
  <2>2. smmSealed' \in BOOLEAN
    BY <1>4, <2>1 DEF SmmOutCfc, SmmBits
  <2> QED  BY <1>4, <2>1, <2>2 DEF SmmOutCfc
<1>5. CASE SmmOutApmc
  BY <1>5 DEF SmmOutApmc
<1>6. CASE SmmEnter
  <2>1. smmArea' \in [SmmBases -> Areas] /\ smmArea'[smmBase].base = smmBase
    BY <1>6 DEF SmmEnter
  <2>2. smmRaised' \in 0..SmmMaxSmis /\ smmDepth' \in 0..SmmMaxSmis /\ smmDepth' <= smmRaised'
    BY <1>6, SmmAssumption DEF SmmEnter
  <2>3. smmOwed' \in SmmContexts \cup {SmmZero, SmmUnknown}
    BY <1>6 DEF SmmEnter
  <2> QED  BY <1>6, <2>1, <2>2, <2>3 DEF SmmEnter
<1>7. CASE SmmExit
  <2> DEFINE moved == smmArea[smmBase].base
  <2>1. smmArea' \in [SmmBases -> Areas] /\ smmArea'[moved].base = moved
    <3>1. CASE moved = smmBase
      BY <1>7, <3>1 DEF SmmExit
    <3>2. CASE moved # smmBase
      BY <1>7, <3>2 DEF SmmExit, SmmPopulated
    <3> QED  BY <3>1, <3>2
  <2>2. smmCode' \in [SmmBases -> {SmmZero, "patched"}]
    BY <1>7 DEF SmmExit
  <2>3. smmDepth' \in 0..SmmMaxSmis /\ smmDepth' <= smmRaised'
    BY <1>7, SmmAssumption DEF SmmExit
  <2>4. smmCpu' \in SmmContexts \cup {SmmZero}
    BY <1>7 DEF SmmExit
  <2> QED  BY <1>7, <2>1, <2>2, <2>3, <2>4 DEF SmmExit
<1>8. CASE SmmThrow
  <2>1. smmDepth' \in 0..SmmMaxSmis /\ smmDepth' <= smmRaised'
    BY <1>8, SmmAssumption DEF SmmThrow
  <2> QED  BY <1>8, <2>1 DEF SmmThrow
<1>9. ASSUME NEW b \in SmmBases, SmmPatch(b)
      PROVE  SmmTypeInv'
  BY <1>9 DEF SmmPatch
<1>10. ASSUME NEW b \in SmmBases, SmmSaveBase(b)
       PROVE  SmmTypeInv'
  <2>1. smmArea' \in [SmmBases -> Areas] /\ smmArea'[smmBase].base = b
    BY <1>10 DEF SmmSaveBase
  <2> QED  BY <1>10, <2>1 DEF SmmSaveBase
<1>11. CASE UNCHANGED smmVars
  BY <1>11 DEF smmVars
<1> QED
  BY <1>1, <1>2, <1>3, <1>4, <1>5, <1>6, <1>7, <1>8, <1>9, <1>10, <1>11 DEF SmmNext

\* Every variable keeps its type: RSM never leads to a base that is none.
THEOREM SmmTypeCorrect == SmmSpec => []SmmTypeOK
<1>1. SmmTypeInv => SmmTypeOK
  BY DEF SmmTypeInv
<1> QED  BY <1>1, SmmTypeInit, SmmTypeNext, PTL DEF SmmSpec

-----------------------------------------------------------------------------
(***************************************************************************)
(* The seal.                                                               *)
(***************************************************************************)

\* While SMRAM is sealed, D_LCK holds it closed and decoded.
SmmSealInv ==
  smmSealed => /\ smmC.g /\ smmC.lck /\ ~smmC.open
               /\ \A b \in SmmTseg : smmCode[b] # "patched"

\* At power-on nothing is sealed.
LEMMA SmmSealInit == SmmInit => SmmSealInv
BY DEF SmmInit, SmmSealInv

\* Every step: config writes cannot reopen a locked SMRAM, and while it is closed no
\* page of TSEG is patched; RSM only clears pages.
LEMMA SmmSealNext == SmmTypeInv /\ SmmSealInv /\ [SmmNext]_smmVars => SmmSealInv'
<1> SUFFICES ASSUME SmmTypeInv, SmmSealInv, [SmmNext]_smmVars
             PROVE  SmmSealInv'
  OBVIOUS
<1> USE DEF SmmSealInv
<1>1. ASSUME NEW v \in SmmBits, SmmOutCfc(v)
      PROVE  SmmSealInv'
  <2>1. CASE smmSealed
    <3>1. ~smmC'.open /\ smmC'.lck
      BY <1>1, <2>1 DEF SmmOutCfc, SmmWritten, SmmBits
    <3> QED  BY <1>1, <2>1, <3>1 DEF SmmOutCfc
  <2>2. CASE ~smmSealed
    <3>1. smmCode' = smmCode
      BY <1>1 DEF SmmOutCfc
    <3>2. smmSealed' => /\ smmC'.g /\ smmC'.lck /\ ~smmC'.open
                        /\ ~(\E b \in SmmTseg : smmCode[b] = "patched")
      BY <1>1, <2>2 DEF SmmOutCfc
    <3> QED  BY <3>1, <3>2
  <2> QED  BY <2>1, <2>2
<1>2. ASSUME NEW b \in SmmBases, SmmPatch(b)
      PROVE  SmmSealInv'
  <2>1. CASE b \in SmmTseg
    <3>1. ~smmSealed
      BY <1>2, <2>1 DEF SmmPatch, SmmOpenTo, SmmVisible
    <3> QED  BY <1>2, <3>1 DEF SmmPatch
  <2>2. CASE b \notin SmmTseg
    <3>1. \A t \in SmmTseg : smmCode'[t] = smmCode[t]
      BY <1>2, <2>2, SmmAssumption DEF SmmPatch, SmmTypeInv, SmmTypeOK
    <3> QED  BY <1>2, <3>1 DEF SmmPatch
  <2> QED  BY <2>1, <2>2
<1>3. CASE SmmExit
  <2>1. \A t \in SmmTseg : smmCode'[t] \in {smmCode[t], SmmZero}
    BY <1>3, SmmAssumption DEF SmmExit, SmmTypeInv, SmmTypeOK
  <2> QED  BY <1>3, <2>1 DEF SmmExit, SmmZero
<1>4. CASE \/ SmmOutApmc \/ SmmEnter \/ SmmThrow \/ UNCHANGED smmVars
           \/ \E ctx \in SmmContexts : SmmRun(ctx) \/ SmmSaveContext(ctx)
           \/ \E reg \in SmmRegisters : SmmOutCf8(reg)
           \/ \E b \in SmmBases : SmmSaveBase(b)
  <2>1. UNCHANGED <<smmC, smmSealed, smmCode>>
    BY <1>4 DEF SmmOutApmc, SmmEnter, SmmThrow, SmmRun, SmmSaveContext, SmmOutCf8, SmmSaveBase,
                smmVars
  <2> QED  BY <2>1
<1> QED  BY <1>1, <1>2, <1>3, <1>4 DEF SmmNext

\* No sequence of config writes, SMIs and relocations lets ring 0 patch a handler in
\* TSEG once SMRAM was locked closed over unpatched handlers.
THEOREM SealHolds == SmmSpec => []SmmSealHolds
<1>1. SmmSealInv => SmmSealHolds
  BY DEF SmmSealInv, SmmSealHolds
<1> QED
  BY <1>1, SmmTypeInit, SmmTypeNext, SmmSealInit, SmmSealNext, PTL DEF SmmSpec

-----------------------------------------------------------------------------
(***************************************************************************)
(* What RSM resumes.                                                       *)
(***************************************************************************)

\* The context that is owed stands in the save area of the current base, which only
\* RSM changes.
SmmOwedInv == smmOwed # SmmUnknown => smmArea[smmBase].ctx = smmOwed

\* At power-on nothing is owed.
LEMMA SmmOwedInit == SmmInit => SmmOwedInv
BY DEF SmmInit, SmmOwedInv

\* Every step: what writes the area keeps the context or owes the new one.
LEMMA SmmOwedNext == SmmTypeInv /\ SmmOwedInv /\ [SmmNext]_smmVars => SmmOwedInv'
<1> SUFFICES ASSUME SmmTypeInv, SmmOwedInv, [SmmNext]_smmVars
             PROVE  SmmOwedInv'
  OBVIOUS
<1> USE DEF SmmOwedInv, SmmTypeInv, SmmTypeOK
<1>1. ASSUME NEW ctx \in SmmContexts, SmmSaveContext(ctx)
      PROVE  SmmOwedInv'
  <2>1. smmArea'[smmBase].ctx = ctx /\ smmBase' = smmBase
    BY <1>1 DEF SmmSaveContext
  <2> QED  BY <1>1, <2>1 DEF SmmSaveContext
<1>2. CASE SmmEnter
  <2>1. smmArea'[smmBase].ctx = smmCpu /\ smmBase' = smmBase
    BY <1>2 DEF SmmEnter
  <2> QED  BY <1>2, <2>1 DEF SmmEnter
<1>3. ASSUME NEW b \in SmmBases, SmmSaveBase(b)
      PROVE  SmmOwedInv'
  <2>1. smmArea'[smmBase].ctx = smmArea[smmBase].ctx /\ smmBase' = smmBase
    BY <1>3 DEF SmmSaveBase
  <2> QED  BY <1>3, <2>1 DEF SmmSaveBase
<1>4. CASE SmmExit \/ SmmThrow
  BY <1>4 DEF SmmExit, SmmThrow
<1>5. CASE \/ SmmOutApmc \/ UNCHANGED smmVars
           \/ \E ctx \in SmmContexts : SmmRun(ctx)
           \/ \E reg \in SmmRegisters : SmmOutCf8(reg)
           \/ \E v \in SmmBits : SmmOutCfc(v)
           \/ \E b \in SmmBases : SmmPatch(b)
  <2>1. UNCHANGED <<smmArea, smmBase, smmOwed>>
    BY <1>5 DEF SmmOutApmc, SmmRun, SmmOutCf8, SmmOutCfc, SmmPatch, smmVars
  <2> QED  BY <2>1
<1> QED  BY <1>1, <1>2, <1>3, <1>4, <1>5 DEF SmmNext

\* RSM resumes the context the SMI interrupted, with what was written to it since.
THEOREM RsmResumes == SmmSpec => SmmResumes
<1>1. SmmTypeInv /\ SmmOwedInv => (SmmExit /\ smmOwed # SmmUnknown => smmCpu' = smmOwed)
  BY DEF SmmOwedInv, SmmExit
<1> QED
  BY <1>1, SmmTypeInit, SmmTypeNext, SmmOwedInit, SmmOwedNext, PTL DEF SmmSpec, SmmResumes

-----------------------------------------------------------------------------
(***************************************************************************)
(* The architecture state (ArchState).                                     *)
(***************************************************************************)
\* What the oracles rest on: the registers of the baseline are in the file, a value
\* under memory integrity is a handler's, and a refusal halted the CPU.
ArOracleInv ==
  /\ ArMsrs \subseteq DOMAIN arFile
  /\ arHvci => \A m \in DOMAIN arFile : arFile[m] = ArPristine \/ m \in arIntercepted
  /\ arRefused => arHalted /\ arHvci

\* Storing in the file adds the register and changes no other.
LEMMA StoreResult ==
  ASSUME NEW m, NEW v, ArStore(m, v)
  PROVE  /\ DOMAIN arFile' = DOMAIN arFile \cup {m}
         /\ arFile'[m] = v
         /\ \A k \in DOMAIN arFile' : k # m => k \in DOMAIN arFile /\ arFile'[k] = arFile[k]
BY DEF ArStore

\* After installArchState.
LEMMA ArOracleInit == ArInit => ArOracleInv
BY DEF ArInit, ArOracleInv

\* Every step.
LEMMA ArOracleNext == ArOracleInv /\ [ArNext]_arVars => ArOracleInv'
<1> SUFFICES ASSUME ArOracleInv, [ArNext]_arVars
             PROVE  ArOracleInv'
  OBVIOUS
<1> USE DEF ArOracleInv
<1>1. ASSUME NEW m \in ArAll, NEW v, ArWrmsr(m, v)
      PROVE  ArOracleInv'
  <2>1. CASE m \in DOMAIN arIntercepts
    <3>1. /\ ArStore(m, arIntercepts[m])
          /\ arIntercepted' = arIntercepted \cup {m}
          /\ UNCHANGED <<arHalted, arRefused, arHvci>>
      BY <1>1, <2>1 DEF ArWrmsr, ArRefuse
    <3> QED  BY <3>1, StoreResult
  <2>2. CASE arHvci /\ m \notin DOMAIN arIntercepts
    BY <1>1, <2>2 DEF ArWrmsr, ArRefuse
  <2>3. CASE ~arHvci /\ m \notin DOMAIN arIntercepts
    <3>1. ArStore(m, v) /\ UNCHANGED <<arHalted, arRefused, arHvci>>
      BY <1>1, <2>3 DEF ArWrmsr, ArRefuse
    <3> QED  BY <2>3, <3>1, StoreResult
  <2> QED  BY <2>1, <2>2, <2>3
<1>2. CASE \/ UNCHANGED arVars
           \/ \E m \in ArAll, v \in ArValues : ArIntercept(m, v)
           \/ \E vec \in ArVectors, v \in ArValues \cup {ArPristine} : ArSetIdt(vec, v)
           \/ \E e \in ArEntries, v \in ArValues \cup {ArPristine} : ArSetGdt(e, v)
  <2>1. UNCHANGED <<arFile, arHvci, arHalted, arRefused, arIntercepted>>
    BY <1>2 DEF arVars, ArIntercept, ArSetIdt, ArSetGdt
  <2> QED  BY <2>1
<1> QED  BY <1>1, <1>2 DEF ArNext

\* Registers hold values or what they were installed with, and handlers return values.
LEMMA ArTypeInit == ArInit => ArTypeOK
<1> SUFFICES ASSUME ArInit
             PROVE  ArTypeOK
  OBVIOUS
<1>1. \A m \in DOMAIN arFile : m \in ArAll /\ arFile[m] \in ArValues \cup {ArPristine}
  BY DEF ArInit, ArAll
<1>2. DOMAIN arIntercepts = {}
  BY DEF ArInit
<1>3. {arHvci, arHalted, arRefused} \subseteq BOOLEAN
  BY DEF ArInit
<1>4. arIntercepted \subseteq ArAll /\ arWrites \in 0..ArMaxWrites
  BY ArAssumption DEF ArInit
<1> QED  BY <1>1, <1>2, <1>3, <1>4 DEF ArTypeOK

LEMMA ArTypeNext == ArTypeOK /\ [ArNext]_arVars => ArTypeOK'
<1> SUFFICES ASSUME ArTypeOK, [ArNext]_arVars
             PROVE  ArTypeOK'
  OBVIOUS
<1> USE DEF ArTypeOK
<1>1. ASSUME ArWrite PROVE arWrites' \in 0..ArMaxWrites
  BY <1>1, ArAssumption DEF ArWrite
<1>2. ASSUME NEW m \in ArAll, NEW v \in ArValues, ArIntercept(m, v)
      PROVE  ArTypeOK'
  BY <1>1, <1>2 DEF ArIntercept
<1>3. ASSUME NEW m \in ArAll, NEW v \in ArValues \cup {ArPristine}, ArWrmsr(m, v)
      PROVE  ArTypeOK'
  <2>1. /\ arIntercepts' = arIntercepts /\ arHvci' = arHvci
        /\ arWrites' \in 0..ArMaxWrites /\ {arHvci', arHalted', arRefused'} \subseteq BOOLEAN
        /\ arIntercepted' \subseteq ArAll
    BY <1>1, <1>3 DEF ArWrmsr, ArRefuse
  <2>2. arFile' = arFile \/ \E w \in ArValues \cup {ArPristine} : ArStore(m, w)
    BY <1>3 DEF ArWrmsr, ArRefuse
  <2>3. \A k \in DOMAIN arFile' : k \in ArAll /\ arFile'[k] \in ArValues \cup {ArPristine}
    BY <2>2, StoreResult
  <2> QED  BY <2>1, <2>3
<1>4. ASSUME NEW k, NEW v, ArSetIdt(k, v) \/ ArSetGdt(k, v)
      PROVE  ArTypeOK'
  BY <1>1, <1>4 DEF ArSetIdt, ArSetGdt
<1>5. CASE UNCHANGED arVars
  BY <1>5 DEF arVars
<1> QED  BY <1>2, <1>3, <1>4, <1>5 DEF ArNext

\* The file of registers and the handlers keep to what the driver can write, however it writes.
THEOREM ArTypeCorrect == ArSpec => []ArTypeOK
BY ArTypeInit, ArTypeNext, PTL DEF ArSpec

\* The scan and the probe agree where no hypervisor stands between them, and under
\* memory integrity only a handler's value gets into a register.
THEOREM OraclesAgree == ArSpec => []ArOraclesAgree
<1>1. ArOracleInv => ArOraclesAgree
  <2> SUFFICES ASSUME ArOracleInv
               PROVE  ArOraclesAgree
    OBVIOUS
  <2>1. ASSUME ArLstar \notin DOMAIN arIntercepts
        PROVE  ArProbeHonest <=> <<"msr", ArLstar>> \notin ArTampered
    <3>1. ArLstar \in ArMsrs /\ ArLstar \in DOMAIN arFile
      BY ArAssumption DEF ArOracleInv
    <3>2. ArProbeHonest <=> arFile[ArLstar] = ArPristine
      BY <2>1, <3>1 DEF ArProbeHonest, ArRdmsr, ArStored
    <3>3. <<"msr", ArLstar>> \in ArTampered <=> arFile[ArLstar] # ArPristine
      BY <3>1 DEF ArTampered
    <3> QED  BY <3>2, <3>3
  <2> QED  BY <2>1 DEF ArOracleInv, ArOraclesAgree
<1> QED  BY <1>1, ArOracleInit, ArOracleNext, PTL DEF ArSpec

-----------------------------------------------------------------------------
(***************************************************************************)
(* Two copies of memory (UnicornBackend).                                  *)
(***************************************************************************)

\* While the engine runs there are steps left, and a call whose fault flag is set has
\* reported the fault itself: the flag of an earlier one was cleared.
UnEngineInv ==
  /\ UnTypeOK
  /\ unPhase \in {"guest", "hook"} /\ unKind # "step" => unSteps < UnMaxSteps
  /\ unPhase # "host" /\ unKind = "call" /\ unFault => unStatus = "fault"
  /\ UnCallStatusTrue

\* Outside of a handler the host's copy of a page is right unless the guest has written
\* it, the engine's if it has.
UnBacked(p) ==
  /\ p \notin unDirty => /\ UnHostSees(p) = unFlat[p]
                         /\ unHost[p] = UnNotThere => unUc[p] = UnZero
  /\ p \in unDirty => UnHasPage(p) /\ unUc[p] = unFlat[p]

\* In a handler the host's copy is right where there is one.  Pages the engine alone has
\* are zero, or were written by the guest.
UnHandled(p) ==
  /\ unHost[p] # UnNotThere => unHost[p] = unFlat[p]
  /\ unHost[p] = UnNotThere /\ p \notin unDirty => unUc[p] = UnZero /\ unFlat[p] = UnZero
  /\ unHost[p] = UnNotThere /\ p \in unDirty =>
       unUc[p] = unFlat[p] /\ (p \in unMapped => unFlat[p] = UnZero)
  /\ p \in unDirty => UnHasPage(p)

\* Outside of a run the host's copy is right; what a throw left dirty is pushed over.
UnKept(p) ==
  /\ UnHostSees(p) = unFlat[p]
  /\ unHost[p] = UnNotThere => unUc[p] = UnZero
  /\ p \in unDirty => UnHasPage(p)

\* The pump may start the engine again.
UnMayStart ==
  unPhase = "pump" /\ IF unKind = "step" THEN ~unDone ELSE ~unFault

\* What holds of the copies of page p, whoever runs.
UnLink(p) ==
  /\ unPhase = "host" => UnKept(p)
  /\ unPhase \in {"pump", "guest"} => UnBacked(p)
  /\ unPhase = "hook" => UnHandled(p)
  /\ unPhase = "guest" \/ UnMayStart =>
       /\ unHost[p] # UnNotThere => p \in unMapped
       /\ ~unPending => UnGuestSees(p) = unFlat[p]
       /\ unPending /\ p \in unDirty /\ unHost[p] # UnNotThere => unUc[p] = unHost[p]

UnOwnPages == UnPages \ {UnMarker}

UnInv ==
  /\ UnEngineInv
  /\ unPhase = "guest" => ~unPending
  /\ ~unLoses => \A p \in UnOwnPages : UnLink(p)

\* What every engine step needs of the types.
UnMemType ==
  /\ unHost \in [UnPages -> UnValues \cup {UnZero, UnNotThere}]
  /\ unUc \in [UnPages -> UnValues \cup {UnZero}]
  /\ unFlat \in [UnPages -> UnValues \cup {UnZero}]
  /\ unMapped \subseteq UnPages /\ unDirty \subseteq UnPages \ {UnMarker}

LEMMA UnMemTypes == UnTypeOK => UnMemType
BY DEF UnTypeOK, UnMemType

\* A page of zeros is one.
LEMMA UnZeroThere == UnZero # UnNotThere /\ UnNotThere \notin UnValues \cup {UnZero}
BY UnAssumption DEF UnZero, UnNotThere

\* The steps charged leave the counter a number.
LEMMA UnChargeType ==
  ASSUME UnEngineInv, unPhase \in {"guest", "hook"}, NEW charged \in BOOLEAN
  PROVE  unSteps + UnCharge(charged) \in Nat
<1>1. unSteps \in Nat /\ UnMaxSteps \in Nat /\ UnChunk \in Nat
  BY UnAssumption DEF UnEngineInv, UnTypeOK
<1>2. CASE ~charged \/ unKind = "step"
  BY <1>1, <1>2 DEF UnCharge
<1>3. CASE ~(~charged \/ unKind = "step")
  <2>1. UnMaxSteps - unSteps \in Nat
    BY <1>1, <1>3 DEF UnEngineInv
  <2> QED  BY <1>1, <1>3, <2>1 DEF UnCharge
<1> QED  BY <1>2, <1>3

\* At the start both copies are empty.
LEMMA UnInvInit == UnInit => UnInv
<1> SUFFICES ASSUME UnInit
             PROVE  UnInv
  OBVIOUS
<1>1. UnTypeOK
  BY UnAssumption DEF UnInit, UnTypeOK
<1>2. UnEngineInv
  BY <1>1 DEF UnInit, UnEngineInv, UnCallStatusTrue
<1>3. ASSUME NEW p \in UnOwnPages
      PROVE  UnLink(p)
  BY <1>3 DEF UnInit, UnLink, UnOwnPages, UnKept, UnMayStart, UnHostSees
<1> QED  BY <1>2, <1>3 DEF UnInv, UnInit

-----------------------------------------------------------------------------
\* The engine part, step by step.
LEMMA UnEngineStep == UnEngineInv /\ [UnNext]_unVars => UnEngineInv'
<1> SUFFICES ASSUME UnEngineInv, [UnNext]_unVars
             PROVE  UnEngineInv'
  OBVIOUS
<1> USE DEF UnEngineInv, UnTypeOK, UnCallStatusTrue, unMemory, unEngine
<1>1. ASSUME NEW p \in UnPages, NEW v \in UnValues, UnHostWrite(p, v)
      PROVE  UnEngineInv'
  BY <1>1 DEF UnHostWrite, UnHostTurn
<1>2. ASSUME NEW p \in UnPages, NEW v \in UnValues, UnCall(p, v)
      PROVE  UnEngineInv'
  BY <1>2, UnZeroThere DEF UnCall, UnPrologue, UnBegin, UnSyncIn
<1>3. ASSUME NEW p \in UnPages, UnMapRange({p})
      PROVE  UnEngineInv'
  BY <1>3, UnZeroThere DEF UnMapRange, UnHostTurn
<1>4. ASSUME NEW p \in UnPages, UnUnmapped(p)
      PROVE  UnEngineInv'
  BY <1>4, UnChargeType DEF UnUnmapped, UnStops
<1>5. CASE UnSetRip
  BY <1>5 DEF UnSetRip, UnHostTurn
<1>6. CASE UnReset
  BY <1>6 DEF UnReset
<1>7. CASE UnRun
  BY <1>7, UnZeroThere DEF UnRun, UnBegin, UnSyncIn
<1>8. CASE UnStepInsn
  BY <1>8, UnZeroThere DEF UnStepInsn, UnBegin, UnSyncIn
<1>9. CASE UnStart
  BY <1>9, UnZeroThere DEF UnStart, UnSyncIn, UnGoesOn
<1>10. CASE UnReturns
  <2>1. unHost' \in [UnPages -> UnValues \cup {UnZero, UnNotThere}]
    BY <1>10 DEF UnReturns, UnPull
  <2>2. /\ unDirty' = {} /\ unPhase' = "host"
        /\ {unPending, unHalted}' \subseteq BOOLEAN
    BY <1>10 DEF UnReturns
  <2>3. unStatus' \in {"none", "fault", "stepped", "reached", "timeout", "halted", "ok"}
    BY <1>10 DEF UnReturns
  <2>4. UnTypeOK'
    BY <1>10, <2>1, <2>2, <2>3 DEF UnReturns
  <2>5. unKind = "call" /\ unStatus' = "halted" => unHalted'
    <3> SUFFICES ASSUME unKind = "call", unStatus' = "halted", ~unHalted
                 PROVE  FALSE
      BY <1>10 DEF UnReturns
    <3>1. unStatus # "fault" /\ ~unDone /\ unSteps < UnMaxSteps
      <4>1. unStatus # "fault"
        BY <1>10 DEF UnReturns
      <4>2. ~unDone
        BY <1>10, <4>1 DEF UnReturns
      <4>3. unStatus' = IF ~unHalted /\ unSteps >= UnMaxSteps THEN "timeout"
                        ELSE IF unHalted \/ unKind = "call" THEN "halted"
                        ELSE IF unKind = "run" THEN "ok" ELSE "timeout"
        BY <1>10, <4>1, <4>2 DEF UnReturns
      <4>4. ~(unSteps >= UnMaxSteps)
        BY <4>3
      <4> QED  BY <4>1, <4>2, <4>4, UnAssumption
    <3>2. unFault
      BY <1>10, <3>1 DEF UnReturns, UnGoesOn
    <3> QED  BY <1>10, <3>1, <3>2 DEF UnReturns
  <2> QED  BY <1>10, <2>2, <2>4, <2>5 DEF UnReturns
<1>11. ASSUME NEW p \in UnPages, NEW q \in UnPages, NEW v \in UnValues, UnGuestWrite({p, q}, p, v)
       PROVE  UnEngineInv'
  BY <1>11 DEF UnGuestWrite
<1>12. CASE UnChunkEnds
  BY <1>12, UnChargeType DEF UnChunkEnds, UnStops
<1>13. CASE UnBreak
  BY <1>13, UnChargeType DEF UnBreak, UnStops
<1>14. CASE UnFaults
  BY <1>14, UnChargeType DEF UnFaults, UnStops
<1>15. CASE UnHlt
  BY <1>15, UnChargeType DEF UnHlt, UnStops
<1>16. CASE UnHook
  BY <1>16 DEF UnHook, UnPull
<1>17. CASE UnHookDeclines
  BY <1>17 DEF UnHookDeclines
<1>18. ASSUME NEW done \in BOOLEAN, UnHookTakes(done)
       PROVE  UnEngineInv'
  BY <1>18, UnChargeType, UnZeroThere DEF UnHookTakes, UnSyncIn
<1>19. CASE UnThrows
  BY <1>19 DEF UnThrows
<1>20. CASE UNCHANGED unVars
  BY <1>20 DEF unVars
<1> QED
  BY <1>1, <1>2, <1>3, <1>4, <1>5, <1>6, <1>7, <1>8, <1>9, <1>10, <1>11, <1>12, <1>13, <1>14,
     <1>15, <1>16, <1>17, <1>18, <1>19, <1>20 DEF UnNext
-----------------------------------------------------------------------------
\* The memory part, for one page that is not the marker's.

\* Pushing every materialised page, when the host's copies are right.
LEMMA UnSyncInShape ==
  ASSUME UnMemType, NEW host \in [UnPages -> UnValues \cup {UnZero, UnNotThere}],
         UnSyncIn(host), NEW p \in UnOwnPages
  PROVE  /\ unUc'[p] = IF host[p] # UnNotThere THEN host[p] ELSE unUc[p]
         /\ p \in unMapped' <=> p \in unMapped \/ host[p] # UnNotThere
BY DEF UnSyncIn, UnOwnPages

\* Entry points push, over what a throw left dirty too.
LEMMA UnBeginsLink ==
  ASSUME UnMemType, NEW p \in UnOwnPages, UnLink(p), unPhase = "host", unPhase' = "pump",
         unHost' \in [UnPages -> UnValues \cup {UnZero, UnNotThere}], UnSyncIn(unHost'),
         unDirty' = unDirty,
         \/ unHost'[p] = unHost[p] /\ unFlat'[p] = unFlat[p]
         \/ unHost'[p] = unFlat'[p] /\ unHost'[p] # UnNotThere
  PROVE  UnLink(p)'
<1>1. /\ unUc'[p] = IF unHost'[p] # UnNotThere THEN unHost'[p] ELSE unUc[p]
      /\ p \in unMapped' <=> p \in unMapped \/ unHost'[p] # UnNotThere
  BY UnSyncInShape
<1>2. /\ UnHostSees(p) = unFlat[p] /\ (unHost[p] = UnNotThere => unUc[p] = UnZero)
      /\ p \in unDirty => UnHasPage(p)
  BY DEF UnLink, UnKept
<1>3. UnHostSees(p)' = unFlat'[p] /\ (unHost'[p] = UnNotThere => unUc'[p] = UnZero)
  BY <1>1, <1>2 DEF UnHostSees
<1>4. UnGuestSees(p)' = unFlat'[p]
  BY <1>1, <1>3 DEF UnGuestSees, UnHostSees
<1>5. p \in unDirty' => UnHasPage(p)' /\ unUc'[p] = unFlat'[p]
  BY <1>1, <1>2, <1>3 DEF UnHasPage, UnHostSees
<1> QED  BY <1>1, <1>3, <1>4, <1>5 DEF UnLink, UnBacked

\* The host's turn: a write, a range mapped.
LEMMA UnHostLink ==
  ASSUME UnMemType, NEW p \in UnOwnPages, UnLink(p),
         \/ \E q \in UnPages, v \in UnValues : UnHostWrite(q, v)
         \/ \E q \in UnPages : UnMapRange({q}) /\ ~unLoses'
         \/ UnSetRip \/ UnReset
  PROVE  UnLink(p)'
<1>0. p \in UnPages /\ p # UnMarker
  BY DEF UnOwnPages
<1>1. ASSUME NEW q \in UnPages, NEW v \in UnValues, UnHostWrite(q, v)
      PROVE  UnLink(p)'
  <2>1. CASE p = q
    BY <1>0, <1>1, <2>1, UnZeroThere
    DEF UnHostWrite, UnHostTurn, UnMemType, UnLink, UnMayStart, UnKept, UnHandled, UnHostSees,
        UnHasPage, unEngine
  <2>2. CASE p # q
    BY <1>0, <1>1, <2>2
    DEF UnHostWrite, UnHostTurn, UnMemType, UnLink, UnMayStart, UnKept, UnHandled, UnHostSees,
        UnHasPage, unEngine
  <2> QED  BY <2>1, <2>2
<1>2. ASSUME NEW q \in UnPages, UnMapRange({q}), ~unLoses'
      PROVE  UnLink(p)'
  <2>1. /\ unUc'[p] = (IF p = q /\ unHost[p] # UnNotThere THEN unHost[p] ELSE unUc[p])
        /\ p \in unMapped' <=> p \in unMapped \/ p = q
        /\ unHost' = unHost /\ unFlat' = unFlat /\ unDirty' = unDirty
        /\ unPhase' = unPhase /\ unPhase \in {"host", "hook"}
    BY <1>0, <1>2 DEF UnMapRange, UnHostTurn, UnMemType, unEngine
  <2>2. p = q /\ p \in unDirty => unUc[p] = UnHostSees(p)
    BY <1>2 DEF UnMapRange, UnUnpulled
  <2> QED
    BY <2>1, <2>2, UnZeroThere DEF UnLink, UnMayStart, UnKept, UnHandled, UnHostSees, UnHasPage
<1>3. CASE UnSetRip
  BY <1>3 DEF UnSetRip, UnHostTurn, UnLink, UnMayStart, UnKept, UnHandled, UnHostSees, UnHasPage,
     unMemory
<1>4. CASE UnReset
  BY <1>4 DEF UnReset, UnLink, UnMayStart, UnKept, UnHostSees, UnHasPage, unMemory
<1> QED  BY <1>1, <1>2, <1>3, <1>4

\* The pump starts the engine, or returns.
LEMMA UnPumpLink ==
  ASSUME UnMemType, NEW p \in UnOwnPages, UnLink(p), UnStart \/ UnReturns
  PROVE  UnLink(p)'
<1>0. p \in UnPages /\ p # UnMarker
  BY DEF UnOwnPages
<1>1. CASE UnStart
  <2>1. /\ unPhase = "pump" /\ unPhase' = "guest" /\ UnMayStart
        /\ unHost' = unHost /\ unFlat' = unFlat /\ unDirty' = unDirty
    BY <1>1 DEF UnStart, UnGoesOn, UnMayStart
  <2>2. CASE unPending
    <3>1. /\ unUc'[p] = IF unHost[p] # UnNotThere THEN unHost[p] ELSE unUc[p]
          /\ p \in unMapped' <=> p \in unMapped \/ unHost[p] # UnNotThere
      BY <1>1, <2>2, UnSyncInShape DEF UnStart, UnMemType
    <3> QED
      BY <2>1, <2>2, <3>1 DEF UnLink, UnBacked, UnHostSees, UnGuestSees, UnHasPage
  <2>3. CASE ~unPending
    BY <1>1, <2>1, <2>3 DEF UnStart, UnLink, UnBacked, UnHostSees, UnGuestSees, UnHasPage
  <2> QED  BY <2>2, <2>3
<1>2. CASE UnReturns
  <2>1. /\ unPhase = "pump" /\ unPhase' = "host" /\ unDirty' = {}
        /\ unHost'[p] = (IF p \in unDirty THEN unUc[p] ELSE unHost[p])
        /\ UNCHANGED <<unUc, unMapped, unFlat>>
    BY <1>0, <1>2 DEF UnReturns, UnPull
  <2>2. unUc[p] # UnNotThere
    BY <1>0, UnZeroThere DEF UnMemType
  <2> QED
    BY <2>1, <2>2 DEF UnLink, UnMayStart, UnBacked, UnKept, UnHostSees
<1> QED  BY <1>1, <1>2

\* The guest writes, or the engine stops.
LEMMA UnGuestLink ==
  ASSUME UnMemType, NEW p \in UnOwnPages, UnLink(p), ~unLoses', unPhase = "guest" => ~unPending,
         \/ \E q, r \in UnPages, v \in UnValues : UnGuestWrite({q, r}, q, v)
         \/ \E q \in UnPages : UnUnmapped(q)
         \/ UnChunkEnds \/ UnBreak \/ UnFaults \/ UnHlt
  PROVE  UnLink(p)'
<1>0. p \in UnPages /\ p # UnMarker
  BY DEF UnOwnPages
<1>1. ASSUME NEW q \in UnPages, NEW r \in UnPages, NEW v \in UnValues, UnGuestWrite({q, r}, q, v)
      PROVE  UnLink(p)'
  <2>1. /\ unPhase = "guest" /\ unPhase' = "guest" /\ unHost' = unHost /\ unMapped' = unMapped
        /\ unUc'[p] = (IF p \in {q, r} THEN v ELSE unUc[p])
        /\ unFlat'[p] = (IF p \in {q, r} THEN v ELSE unFlat[p])
        /\ unDirty' = unDirty \cup {q} /\ r \in unDirty' /\ UnHasPage(q) /\ UnHasPage(r)
        /\ ~unPending /\ unPending' = unPending
    BY <1>0, <1>1 DEF UnGuestWrite
  <2>2. CASE p \in {q, r}
    BY <2>1, <2>2 DEF UnLink, UnMayStart, UnBacked, UnGuestSees, UnHasPage
  <2>3. CASE p \notin {q, r}
    BY <2>1, <2>3 DEF UnLink, UnMayStart, UnBacked, UnHostSees, UnGuestSees, UnHasPage
  <2> QED  BY <2>2, <2>3
<1>2. ASSUME NEW q \in UnPages, UnUnmapped(q)
      PROVE  UnLink(p)'
  <2>1. /\ unPhase = "guest" /\ unPhase' = "pump" /\ unPending' = TRUE
        /\ UNCHANGED <<unHost, unDirty, unFlat, unKind>> /\ unDone' = (unKind = "step")
        /\ ~UnHasPage(q) /\ unMapped' = unMapped \cup {q}
        /\ unUc'[p] = (IF p = q THEN UnZero ELSE unUc[p])
    BY <1>0, <1>2 DEF UnUnmapped, UnStops, UnMemType
  <2>2. unKind # "step" /\ p \in unDirty => unUc[p] = UnHostSees(p)
    BY <1>2 DEF UnUnmapped, UnUnpulled
  <2>3. CASE p = q
    BY <2>1, <2>3 DEF UnLink, UnMayStart, UnBacked, UnHostSees, UnGuestSees, UnHasPage
  <2>4. CASE p # q
    BY <2>1, <2>2, <2>4 DEF UnLink, UnMayStart, UnBacked, UnHostSees, UnGuestSees, UnHasPage
  <2> QED  BY <2>3, <2>4
<1>3. CASE UnBreak
  <2>1. p \in unDirty => unUc[p] = UnHostSees(p)
    BY <1>3 DEF UnBreak, UnUnpulled
  <2> QED
    BY <1>3, <2>1 DEF UnBreak, UnStops, UnLink, UnMayStart, UnBacked, UnHostSees, UnGuestSees, UnHasPage
<1>4. CASE UnChunkEnds \/ UnFaults \/ UnHlt
  <2>1. /\ unPhase = "guest" /\ unPhase' = "pump" /\ ~unPending'
        /\ UNCHANGED <<unHost, unUc, unMapped, unDirty, unFlat>>
    <3>1. /\ unPhase = "guest" /\ unPhase' = "pump" /\ unPending' = unPending
          /\ UNCHANGED <<unHost, unUc, unMapped, unDirty, unFlat>>
      BY <1>4, Zenon DEF UnChunkEnds, UnFaults, UnHlt, UnStops
    <3> QED  BY <3>1
  <2> QED
    BY <2>1 DEF UnLink, UnMayStart, UnBacked, UnHostSees, UnGuestSees, UnHasPage
<1> QED  BY <1>1, <1>2, <1>3, <1>4

\* A hook is called, and takes the address, declines or throws, as the engine may.
LEMMA UnHookLink ==
  ASSUME UnMemType, NEW p \in UnOwnPages, UnLink(p), ~unLoses', unPhase = "guest" => ~unPending,
         UnHook \/ UnHookDeclines \/ UnThrows \/ \E done \in BOOLEAN : UnHookTakes(done)
  PROVE  UnLink(p)'
<1>0. p \in UnPages /\ p # UnMarker /\ unUc[p] # UnNotThere
  BY UnZeroThere DEF UnOwnPages, UnMemType
<1>1. CASE UnHook
  <2>1. /\ unPhase = "guest" /\ unPhase' = "hook" /\ UNCHANGED <<unUc, unMapped, unDirty, unFlat>>
        /\ unHost'[p] = (IF p \in unMapped THEN unUc[p] ELSE unHost[p])
    BY <1>0, <1>1 DEF UnHook, UnPull
  <2> QED
    BY <1>0, <2>1, UnZeroThere
    DEF UnLink, UnMayStart, UnBacked, UnHandled, UnHostSees, UnGuestSees, UnHasPage
<1>2. CASE UnHookDeclines
  <2>1. /\ unPhase = "hook" /\ unPhase' = "guest"
        /\ UNCHANGED <<unHost, unUc, unMapped, unDirty, unFlat>>
        /\ UnGuestSees(p) = unFlat[p] /\ (unHost[p] # UnNotThere => p \in unMapped)
    BY <1>0, <1>2 DEF UnHookDeclines
  <2> QED
    BY <2>1 DEF UnLink, UnMayStart, UnBacked, UnHandled, UnHostSees, UnGuestSees, UnHasPage
<1>3. ASSUME NEW done \in BOOLEAN, UnHookTakes(done)
      PROVE  UnLink(p)'
  <2>1. /\ unPhase = "hook" /\ unPhase' = "pump" /\ UNCHANGED <<unHost, unDirty, unFlat>>
        /\ unUc'[p] = (IF unHost[p] # UnNotThere THEN unHost[p] ELSE unUc[p])
        /\ p \in unMapped' <=> p \in unMapped \/ unHost[p] # UnNotThere
    BY <1>3, UnSyncInShape DEF UnHookTakes, UnMemType
  <2> QED
    BY <2>1 DEF UnLink, UnMayStart, UnBacked, UnHandled, UnHostSees, UnGuestSees, UnHasPage
<1>4. CASE UnThrows
  <2>1. /\ unPhase \in {"guest", "hook"} /\ unPhase' = (IF unKind = "step" THEN "host" ELSE "pump")
        /\ unFault' /\ UNCHANGED <<unHost, unUc, unMapped, unDirty, unFlat, unKind>>
        /\ IF unKind = "step" THEN UnHostSees(p) = unFlat[p]
                              ELSE p \in unDirty => unUc[p] = unFlat[p]
    BY <1>0, <1>4 DEF UnThrows
  <2>2. CASE unKind = "step"
    <3>1. UnKept(p)
      BY <2>1, <2>2, UnZeroThere DEF UnLink, UnBacked, UnHandled, UnKept, UnHostSees
    <3> QED  BY <2>1, <2>2, <3>1 DEF UnLink, UnMayStart, UnKept, UnHostSees, UnHasPage
  <2>3. CASE unKind # "step"
    <3>1. UnBacked(p)
      BY <2>1, <2>3 DEF UnLink, UnBacked, UnHandled, UnHostSees
    <3> QED  BY <2>1, <2>3, <3>1 DEF UnLink, UnMayStart, UnBacked, UnHostSees, UnHasPage
  <2> QED  BY <2>2, <2>3
<1> QED  BY <1>1, <1>2, <1>3, <1>4

\* Every step.
LEMMA UnInvNext == UnInv /\ [UnNext]_unVars => UnInv'
<1> SUFFICES ASSUME UnInv, [UnNext]_unVars
             PROVE  UnInv'
  OBVIOUS
<1>1. UnEngineInv'
  BY UnEngineStep DEF UnInv
<1>2. UnMemType /\ (unPhase = "guest" => ~unPending)
  BY UnMemTypes DEF UnInv, UnEngineInv
<1>3. (unPhase = "guest" => ~unPending)'
  BY <1>2 DEF UnNext, UnHostWrite, UnHostTurn, UnCall, UnPrologue, UnBegin, UnMapRange, UnUnmapped,
     UnStops, UnSetRip, UnReset, UnRun, UnStepInsn, UnStart, UnReturns, UnGuestWrite, UnChunkEnds,
     UnBreak, UnFaults, UnHlt, UnHook, UnHookDeclines, UnThrows, UnHookTakes,
     unVars
<1>4. ~unLoses' => ~unLoses
  BY DEF UnNext, UnHostWrite, UnCall, UnPrologue, UnBegin, UnMapRange, UnUnmapped,
     UnStops, UnSetRip, UnReset, UnRun, UnStepInsn, UnStart, UnReturns, UnGuestWrite, UnChunkEnds,
     UnBreak, UnFaults, UnHlt, UnHook, UnHookDeclines, UnThrows, UnHookTakes,
     unVars, unMemory
<1>5. ASSUME ~unLoses', NEW p \in UnOwnPages
      PROVE  UnLink(p)'
  <2>1. UnLink(p)
    BY <1>4, <1>5 DEF UnInv
  <2>2. ASSUME NEW q \in UnPages, NEW v \in UnValues, UnCall(q, v)
        PROVE  UnLink(p)'
    <3>1. /\ unHost' = [unHost EXCEPT ![q] = v] /\ unFlat' = [unFlat EXCEPT ![q] = v]
          /\ unPhase = "host" /\ unPhase' = "pump" /\ unDirty' = unDirty /\ UnSyncIn(unHost')
      BY <2>2 DEF UnCall, UnPrologue, UnBegin
    <3>2. /\ unHost' \in [UnPages -> UnValues \cup {UnZero, UnNotThere}]
          /\ \/ unHost'[p] = unHost[p] /\ unFlat'[p] = unFlat[p]
             \/ unHost'[p] = unFlat'[p] /\ unHost'[p] # UnNotThere
      BY <1>2, <2>2, <3>1, UnZeroThere DEF UnMemType, UnOwnPages
    <3> QED  BY <1>2, <2>1, <3>1, <3>2, UnBeginsLink
  <2>3. CASE UnRun \/ UnStepInsn
    <3>1. /\ unHost' = unHost /\ unFlat' = unFlat
          /\ unPhase = "host" /\ unPhase' = "pump" /\ unDirty' = unDirty /\ UnSyncIn(unHost')
      BY <2>3 DEF UnRun, UnStepInsn, UnBegin
    <3>2. unHost' \in [UnPages -> UnValues \cup {UnZero, UnNotThere}]
      BY <1>2, <3>1 DEF UnMemType
    <3> QED  BY <1>2, <2>1, <3>1, <3>2, UnBeginsLink
  <2>4. CASE UNCHANGED unVars
    BY <2>1, <2>4 DEF unVars, unMemory, unEngine, UnLink, UnMayStart, UnBacked, UnKept, UnHandled,
       UnHostSees, UnGuestSees, UnHasPage
  <2> QED
    BY <1>2, <1>5, <2>1, <2>2, <2>3, <2>4, UnHostLink, UnPumpLink, UnGuestLink, UnHookLink
    DEF UnNext
<1> QED  BY <1>1, <1>3, <1>5 DEF UnInv

\* The three clauses of coherence.
LEMMA UnInvCoherent == UnInv => UnHandsBack
<1> SUFFICES ASSUME UnInv
             PROVE  UnHandsBack
  OBVIOUS
<1>1. UnCallStatusTrue
  BY DEF UnInv, UnEngineInv
<1>2. ASSUME ~unLoses, NEW p \in UnOwnPages
      PROVE  /\ unPhase = "host" => UnHostSees(p) = unFlat[p]
             /\ unPhase = "hook" /\ p \in unMapped => UnHostSees(p) = unFlat[p]
             /\ unPhase = "guest" => UnGuestSees(p) = unFlat[p]
  <2>1. UnLink(p) /\ (unPhase = "guest" => ~unPending)
    BY <1>2 DEF UnInv
  <2> QED  BY <2>1 DEF UnLink, UnKept, UnHandled, UnHostSees
<1> QED  BY <1>1, <1>2 DEF UnHandsBack, UnCoherent, UnOwnPages

\* Every variable keeps its type.
THEOREM UnTypeCorrect == UnSpec => []UnTypeOK
<1>1. UnInv => UnTypeOK
  BY DEF UnInv, UnEngineInv
<1> QED  BY <1>1, UnInvInit, UnInvNext, PTL DEF UnSpec

\* Host, guest and handlers find each other's writes, over any number of runs, hooks and
\* stops and any number of pages, until a case that unLoses names; and a call that reports
\* "halted" stopped on a hlt.
THEOREM HandsBack == UnSpec => []UnHandsBack
BY UnInvCoherent, UnInvInit, UnInvNext, PTL DEF UnSpec

-----------------------------------------------------------------------------
(***************************************************************************)
(* All of them together (MCMachine): each component keeps its invariant     *)
(* while it is in focus, and nothing moves it while it is not.             *)
(***************************************************************************)
\* What every component keeps.
ProcessorInv == CpuInv /\ DecInv /\ CpuMemInv /\ SmmTypeInv /\ ArTypeOK /\ UnInv
KernelInv == PtInv /\ SehInv /\ PlTypeOK /\ NotifyInv

\* A component out of focus is at one of its beginnings.
LEMMA CpuRestInv == CpuRest => CpuInv
<1>1. CpuTop(8) \in Nat \ {0}
  BY CpuTops DEF CpuAllSizes
<1>2. Registers(0, 0, 0, FALSE) \in CpuState
  <2>1. [k \in CpuRegs |-> CASE k = 0 -> 0 [] k = 1 -> 0 [] k = 2 -> 0 [] OTHER -> 0]
          \in [CpuRegs -> 0..CpuTop(8) - 1]
    BY <1>1
  <2> QED  BY <2>1 DEF Registers, CpuState
<1> QED  BY <1>2 DEF CpuRest, CpuInv

LEMMA DecodeRestInv == DecodeRest => DecInv
<1> SUFFICES ASSUME DecodeRest PROVE DecInv
  OBVIOUS
<1>1. PICK x : x = (CHOOSE o \in DecOperands : TRUE)
  OBVIOUS
<1>2. x \in DecForms
  BY <1>1, MachineAssumption, DecAssumption
<1>3. <<>> \in Seq(DecBytes)
  OBVIOUS
<1>4. decInput = [operand |-> x, prefixes |-> <<>>, insn |-> "none", after |-> 0]
      /\ decFound = CpuNone
  BY <1>1 DEF DecodeRest
<1> QED  BY <1>2, <1>3, <1>4 DEF DecInv, DecInsns

LEMMA MemRestInv == MemRest => CpuMemInv
<1> SUFFICES ASSUME MemRest PROVE CpuMemInv
  OBVIOUS
<1>1. mReg \in CpuMemStarts
  BY MachineAssumption DEF MemRest
<1>2. CpuMemInit
  BY <1>1 DEF MemRest, CpuMemInit
<1> QED  BY <1>2, CpuMemInitInv

\* The initial states, and every step.
LEMMA MachineInit == MCInit => ProcessorInv /\ KernelInv
<1> SUFFICES ASSUME MCInit PROVE ProcessorInv /\ KernelInv
  OBVIOUS
<1>1. CpuInv
  <2>1. CpuInit \/ CpuRest
    BY DEF MCInit
  <2> QED  BY <2>1, CpuInvInit, CpuRestInv
<1>2. DecInv
  <2>1. DecInit \/ DecodeRest
    BY DEF MCInit, DecodeInit
  <2> QED  BY <2>1, DecInvInit, DecodeRestInv
<1>3. CpuMemInv
  <2>1. CpuMemInit \/ MemRest
    BY DEF MCInit
  <2> QED  BY <2>1, CpuMemInitInv, MemRestInv
<1>4. SmmTypeInv /\ ArTypeOK /\ UnInv
  <2>1. SmmInit /\ ArInit /\ UnInit
    BY DEF MCInit
  <2> QED  BY <2>1, SmmTypeInit, ArTypeInit, UnInvInit
<1>5. PtInv /\ SehInv /\ PlTypeOK /\ NotifyInv
  <2>1. PtInit /\ SehInit /\ PlInit /\ Init
    BY DEF MCInit
  <2> QED  BY <2>1, PtInvInit, SehInvInit, PlTypeInit, NotifyInit
<1> QED  BY <1>1, <1>2, <1>3, <1>4, <1>5 DEF ProcessorInv, KernelInv

LEMMA MachineMoves ==
  ASSUME [MCNext]_<<focus, tableSide, cpuSide, listSide>>
  PROVE  /\ [CpuNext]_cpuVars /\ [DecStep]_decVars /\ [CpuMemNext]_mVars
         /\ [SmmNext]_smmVars /\ [ArNext]_arVars /\ [UnNext]_unVars
         /\ [PtNextStep]_ptVars /\ [SehNext]_sehVars /\ [PlStep]_plVars /\ [Next]_vars
BY DEF MCNext, tableSide, cpuSide, listSide

LEMMA MachineNext ==
  ProcessorInv /\ KernelInv /\ [MCNext]_<<focus, tableSide, cpuSide, listSide>>
    => ProcessorInv' /\ KernelInv'
<1> SUFFICES ASSUME ProcessorInv, KernelInv, [MCNext]_<<focus, tableSide, cpuSide, listSide>>
             PROVE  ProcessorInv' /\ KernelInv'
  OBVIOUS
<1>1. CpuInv' /\ DecInv' /\ CpuMemInv'
  BY MachineMoves, CpuInvNext, DecInvNext, CpuMemInvNext DEF ProcessorInv
<1>2. SmmTypeInv' /\ ArTypeOK' /\ UnInv'
  BY MachineMoves, SmmTypeNext, ArTypeNext, UnInvNext DEF ProcessorInv
<1>3. PtInv' /\ SehInv'
  BY MachineMoves, PtInvNext, SehInvNext DEF KernelInv
<1>4. PlTypeOK' /\ NotifyInv'
  BY MachineMoves, PlTypeStep, NotifyNext DEF KernelInv
<1> QED  BY <1>1, <1>2, <1>3, <1>4 DEF ProcessorInv, KernelInv

LEMMA MachineInvariant == MCSpec => [](ProcessorInv /\ KernelInv)
BY MachineInit, MachineNext, PTL DEF MCSpec

\* Whichever component moves, all keep their variables in their types, whatever the values of
\* the constants.
THEOREM MachineTyped == MCSpec => []MCTypeOK
<1>1. ProcessorInv /\ KernelInv => MCTypeOK
  <2> SUFFICES ASSUME ProcessorInv, KernelInv PROVE MCTypeOK
    OBVIOUS
  <2>1. CpuTypeOK
    BY CpuInvTyped DEF ProcessorInv
  <2>2. CpuMemTypeOK
    BY DEF ProcessorInv, CpuMemInv
  <2>3. SmmTypeOK /\ ArTypeOK
    BY DEF ProcessorInv, SmmTypeInv
  <2>4. UnTypeOK
    BY DEF ProcessorInv, UnInv, UnEngineInv
  <2>5. PtTypeOK
    BY DEF KernelInv, PtInv
  <2>6. SehTypeOK
    BY DEF KernelInv, SehInv
  <2>7. PlTypeOK /\ TypeOK
    BY DEF KernelInv, NotifyInv
  <2> QED  BY <2>1, <2>2, <2>3, <2>4, <2>5, <2>6, <2>7 DEF MCTypeOK
<1> QED  BY <1>1, MachineInvariant, PTL

\* The interpreter computes what the architecture does and finds operands where the encoding puts
\* them, but for the forms that CpuExact and DecExact name (cpu.mjs): for every width of a byte,
\* program, state to start from, operand and sequence of prefixes.
THEOREM ComputesExactly == MCSpec => []InterpreterExact
<1>1. ProcessorInv /\ KernelInv => InterpreterExact
  BY CpuInvExact, DecInvExact DEF ProcessorInv, InterpreterExact
<1> QED  BY <1>1, MachineInvariant, PTL

================================================================================
