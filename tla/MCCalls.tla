-------------------------------- MODULE MCCalls --------------------------------
(***************************************************************************)
(* An attempt and the services it calls: Pipeline, the client of the model *)
(* (Gateway) and the conversion by Docling. A behaviour is of one part;    *)
(* the others rest where they begin. They share nothing but a refusal of   *)
(* the model and a failure of Docling, which Pipeline lets come at any     *)
(* time.                                                                   *)
(***************************************************************************)
EXTENDS MCPipeline, FiniteSets

CONSTANTS Ask, Counted, MaxRetries, MaxConcurrency, Image, Size, TextSize, BodyLimit, SmallestImage,
          Attempts

ASSUME GatewayConstants ==
  /\ MaxRetries \in Nat /\ MaxConcurrency \in Nat \ {0}
  /\ IsFiniteSet(Image) /\ Size \subseteq Nat
  /\ TextSize \in Nat /\ BodyLimit \in Nat \ {0} /\ SmallestImage \in Nat
  /\ Attempts \in Nat \ {0}

VARIABLES part, ask, latch, permits, formats,
          phase, await, posts, tries, task, server, expired, local

gatewayVars == <<ask, latch, permits, formats>>
doclingVars == <<phase, await, posts, tries, task, server, expired, local>>
callVars == <<part, vars, gatewayVars, doclingVars>>

G == INSTANCE Gateway
D == INSTANCE Docling

CallsInit ==
  /\ part \in {"pipeline", "gateway", "docling"}
  /\ Init /\ (part # "pipeline" => pc = "start")
  /\ G!Init
  /\ D!Init /\ (part # "docling" => local = "none")

InPipeline(A) == part = "pipeline" /\ A /\ UNCHANGED <<part, gatewayVars, doclingVars>>
InGateway(A)  == part = "gateway" /\ A /\ UNCHANGED <<part, vars, doclingVars>>
InDocling(A)  == part = "docling" /\ A /\ UNCHANGED <<part, vars, gatewayVars>>

CallsNext == InPipeline(Next) \/ InGateway(G!Next) \/ InDocling(D!Next)

\* The fairness that FairSpec of each module states.
CallsSpec ==
  /\ CallsInit /\ [][CallsNext]_callVars
  /\ WF_callVars(InPipeline(Work))
  /\ \A a \in Ask : WF_callVars(InGateway(G!Step(a)))
  /\ WF_callVars(InDocling(D!Works)) /\ WF_callVars(InDocling(D!Expire))

\* What was asked of a service is accounted for: a question to the model is charged for
\* a bounded number of runs, none after a timeout, and is not too large, and a conversion
\* knows what became of its submissions.
CallsAccounted == G!ChargesAreBounded /\ G!BodiesFit /\ D!PhaseTells

\* None leaves after a refusal.
QuietAfterRefusal == G!QuietAfterRefusal

\* Whatever is refused, fails or takes too long, the attempt ends, every question is
\* answered or given up, and so is the conversion.
CallsEnd ==
  <>(/\ part = "pipeline" => pc \in Over
     /\ part = "gateway" => G!AllEnded
     /\ part = "docling" => D!Over)

================================================================================
