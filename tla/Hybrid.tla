--------------------------------- MODULE Hybrid ---------------------------------
(***************************************************************************)
(* The hybrid CPU backend (packages/ntsim-unicorn/src/hybrid.mjs): the     *)
(* interpreter runs guest code until it refuses an instruction, and the    *)
(* Unicorn engine takes over for good.                                     *)
(*                                                                         *)
(* Each engine has one register file, of which only rip matters here.  An  *)
(* instruction may be a call of an API, whose implementation can call the  *)
(* guest again through the backend, so that calls nest; when it is done,   *)
(* the kernel writes the return address to the rip of the engine that is   *)
(* active by then.  Memory is shared.  Step budgets, breakpoints and       *)
(* faults that are the guest's own are left out.                           *)
(***************************************************************************)
EXTENDS Naturals, Sequences

CONSTANTS
  Codes,     \* guest functions: sequences of instructions
  MaxDepth   \* bound: how deep calls nest

\* plain: any instruction both engines know; api: a call of an API; new: one
\* the interpreter refuses.  prefixed: it has prefix bytes before its opcode.
Instruction == [kind : {"plain", "api", "new"}, prefixed : BOOLEAN]

ASSUME HybridAssumption ==
  /\ Codes \subseteq Seq(Instruction)
  /\ MaxDepth \in Nat

VARIABLES
  active,  \* "js" until the hand-off, "uc" from then on
  rip,     \* where each engine is
  frames   \* the calls in progress, innermost last

hybridVars == <<active, rip, frames>>

-----------------------------------------------------------------------------
Engines == {"js", "uc"}

\* at: the instruction; cut: its prefixes are behind the engine.
Place == [code : Codes \cup {<<>>}, at : Nat \ {0}, cut : BOOLEAN]

\* via: callFunction or run; engine: who executes it; inApi: an API is serviced,
\* and returns to next.  Ghosts: due, the instruction that is to be executed
\* next; switched: another call was handed over while this one was in progress.
Frame == [via : {"call", "run"}, engine : Engines, code : Codes,
          inApi : BOOLEAN, due : Nat \ {0}, switched : BOOLEAN]

HybridTypeOK ==
  /\ active \in Engines
  /\ rip \in [Engines -> Place]
  /\ frames \in Seq(Frame)
  /\ \A k \in DOMAIN frames : frames[k].engine = "uc" => active = "uc"

Start(code) == [code |-> code, at |-> 1, cut |-> FALSE]

HybridInit ==
  /\ active = "js"
  /\ rip = [e \in Engines |-> Start(<<>>)]
  /\ frames = <<>>

-----------------------------------------------------------------------------
Depth == Len(frames)
Top == frames[Depth]

\* The innermost call executes guest code, on its own engine.
Executing == frames # <<>> /\ ~Top.inApi
Here == rip[Top.engine]
AtEnd == Here.at > Len(Here.code)
Instr == Here.code[Here.at]

\* callFunction starts at the function; the host can also point rip at it and
\* run.  Guest code is only called from the host and from API implementations.
Enter(via, code) ==
  /\ frames # <<>> => Top.inApi /\ via = "call"
  /\ Depth < MaxDepth
  /\ rip' = [rip EXCEPT ![active] = Start(code)]
  /\ frames' = Append(frames, [via |-> via, engine |-> active, code |-> code,
                               inApi |-> FALSE, due |-> 1, switched |-> FALSE])
  /\ UNCHANGED active

Execute ==
  /\ Executing /\ ~AtEnd
  /\ Instr.kind = "plain" \/ (Instr.kind = "new" /\ Top.engine = "uc")
  /\ rip' = [rip EXCEPT ![Top.engine].at = @ + 1, ![Top.engine].cut = FALSE]
  /\ frames' = [frames EXCEPT ![Depth].due = @ + 1]
  /\ UNCHANGED active

EnterApi ==
  /\ Executing /\ ~AtEnd
  /\ Instr.kind = "api"
  /\ frames' = [frames EXCEPT ![Depth].inApi = TRUE]
  /\ UNCHANGED <<active, rip>>

\* The thunk pops the return address off the stack of the code it was called
\* from: into the engine that is active now.
ApiReturns ==
  /\ frames # <<>> /\ Top.inApi
  /\ rip' = [rip EXCEPT ![active] =
               [code |-> Top.code, at |-> Top.due + 1, cut |-> FALSE]]
  /\ frames' = [frames EXCEPT ![Depth].inApi = FALSE, ![Depth].due = @ + 1]
  /\ UNCHANGED active

Refused == Executing /\ ~AtEnd /\ Instr.kind = "new" /\ Top.engine = "js"

\* Fault: the interpreter's rip is behind the opcode it has fetched.
HandedOverBehind(place) == [place EXCEPT !.at = @ + 1]

\* #copyJsToUc: rip is rewound to opcodeStart, which is behind the prefixes.
HandedOver(place) == [place EXCEPT !.cut = place.code[place.at].prefixed]

\* Fault: only run hands over.
MayHandOffFromRun == active = "js" /\ Top.via = "run"

MayHandOff == active = "js"

\* Fault: the backend goes on calling the interpreter.
HandoffUnswitched ==
  /\ Refused /\ MayHandOff
  /\ rip' = [rip EXCEPT !["uc"] = HandedOver(Here)]
  /\ frames' = [frames EXCEPT ![Depth].engine = "uc"]
  /\ UNCHANGED active

\* The one hand-off.  run goes on with what was copied; callFunction calls the
\* function again on the other engine.
Handoff ==
  /\ Refused /\ MayHandOff
  /\ active' = "uc"
  /\ rip' = [js |-> HandedOver(Here),
             uc |-> IF Top.via = "run" THEN HandedOver(Here)
                    ELSE Start(Top.code)]
  /\ frames' = [k \in DOMAIN frames |->
                  IF k = Depth THEN [frames[k] EXCEPT !.engine = "uc"]
                  ELSE [frames[k] EXCEPT !.switched = TRUE]]

Leave == frames' = SubSeq(frames, 1, Depth - 1) /\ UNCHANGED <<active, rip>>

\* Unicorn is active already: the refusal is reported as a fault of the guest.
ReportsFault == Refused /\ ~MayHandOff /\ Leave

\* callFunction is back at its marker, run has halted.
Finishes == Executing /\ AtEnd /\ Leave

Reset ==
  /\ frames = <<>>
  /\ active' = "js"
  /\ rip' = [e \in Engines |-> Start(<<>>)]
  /\ UNCHANGED frames

HybridNext ==
  \/ \E via \in {"call", "run"}, code \in Codes : Enter(via, code)
  \/ Execute
  \/ EnterApi
  \/ ApiReturns
  \/ Handoff
  \/ ReportsFault
  \/ Finishes
  \/ Reset

HybridSpec == HybridInit /\ [][HybridNext]_hybridVars

-----------------------------------------------------------------------------
(***************************************************************************)
(* Properties.                                                             *)
(***************************************************************************)

\* run executes its function in order on whichever engine: the hand-off neither
\* skips nor repeats an instruction, calls and APIs in between included.  Only a
\* call that was in progress around the hand-off of another one is lost.
RunContinues ==
  Executing /\ Top.via = "run" /\ ~Top.switched =>
    Here.code = Top.code /\ Here.at = Top.due

\* A refused instruction is reported as a fault by the calls around the one that
\* was handed over, which the interpreter cannot go on with, and by no other.
FaultsOnlyAround == [][ReportsFault => Top.switched]_hybridVars

-----------------------------------------------------------------------------
(***************************************************************************)
(* What a comment says, and the code does not do.                          *)
(***************************************************************************)

\* hybrid.mjs: execution hands off at the exact faulting RIP.  A call that is
\* executed stands at the first byte of the instruction that is due.
HandoffExact ==
  Executing /\ ~Top.switched =>
    Here = [code |-> Top.code, at |-> Top.due, cut |-> FALSE]

=============================================================================
