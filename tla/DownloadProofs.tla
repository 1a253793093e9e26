--------------------------- MODULE DownloadProofs ---------------------------
(***************************************************************************)
(* Proofs about Download, for any number of builds and sites, with any     *)
(* transfers that are cut and with builds that are killed.                 *)
(***************************************************************************)
EXTENDS Download, TLAPS

\* What a step of b may do to the places where the builds are.
LEMMA GoToType ==
  ASSUME TypeOK, NEW b \in Builds, NEW s \in Stages, GoTo(b, s)
  PROVE  /\ stage' \in [Builds -> Stages]
         /\ stage'[b] = s
         /\ \A c \in Builds \ {b} : stage'[c] = stage[c]
BY DEF GoTo, TypeOK

LEMMA NextSiteType ==
  ASSUME TypeOK, NEW b \in Builds, try[b] \in DOMAIN Sites, NextSite(b)
  PROVE  /\ try' \in [Builds -> 1 .. Len(Sites) + 1]
         /\ \A c \in Builds \ {b} : try'[c] = try[c] /\ stage'[c] = stage[c]
         /\ stage' \in [Builds -> Stages]
         /\ \/ stage'[b] = "test" /\ try'[b] \in DOMAIN Sites
            \/ stage'[b] = "failed"
<1>1. Len(Sites) \in Nat /\ DOMAIN Sites = 1 .. Len(Sites)
  BY DownloadAssumption
<1>2. try' = [try EXCEPT ![b] = try[b] + 1] /\ try[b] \in 1 .. Len(Sites)
  BY <1>1 DEF NextSite
<1>3. PICK s \in {"test", "failed"} : GoTo(b, s) /\ (s = "test" => try[b] < Len(Sites))
  BY DEF NextSite
<1>4. /\ stage' \in [Builds -> Stages] /\ stage'[b] = s
      /\ \A c \in Builds \ {b} : stage'[c] = stage[c]
  BY <1>3, GoToType DEF Stages
<1>5. try'[b] = try[b] + 1 /\ \A c \in Builds \ {b} : try'[c] = try[c]
  BY <1>2 DEF TypeOK
<1>6. try' \in [Builds -> 1 .. Len(Sites) + 1]
  BY <1>1, <1>2 DEF TypeOK
<1>7. s = "test" => try'[b] \in DOMAIN Sites
  BY <1>1, <1>2, <1>3, <1>5
<1> QED
  BY <1>3, <1>4, <1>5, <1>6, <1>7

Talking == {"test", "connect", "checkout", "clone", "write"}

\* A step of b that stays at its site and leaves the archive and its writers alone, or
\* opens or closes it.
LEMMA SameSiteType ==
  ASSUME TypeOK, NEW b \in Builds, NEW s \in Stages, GoTo(b, s), UNCHANGED <<world, try>>,
         stage[b] \in Talking \/ s \notin Talking,
         file' \in {"absent", "part", "whole", "broken"}, tree' \in BOOLEAN,
         disturbed' \in BOOLEAN,
         owns' \subseteq owns \cup {b}, b \in owns' => s = "write"
  PROVE  TypeOK'
<1>1. stage' \in [Builds -> Stages] /\ stage'[b] = s /\ \A c \in Builds \ {b} : stage'[c] = stage[c]
  BY GoToType
<1>2. owns' \subseteq {c \in Builds : stage'[c] = "write"}
  BY <1>1 DEF TypeOK
<1>3. \A c \in Builds : stage'[c] \in Talking => try'[c] \in DOMAIN Sites
  BY <1>1 DEF TypeOK, Talking
<1> QED
  BY <1>1, <1>2, <1>3 DEF TypeOK, Talking, world

\* A step of b to the next site.
LEMMA OtherSiteType ==
  ASSUME TypeOK, NEW b \in Builds, stage[b] \in Talking, NextSite(b), UNCHANGED <<world, file>>,
         tree' \in BOOLEAN, disturbed' \in BOOLEAN, owns' = owns \ {b}
  PROVE  TypeOK'
<1>1. try[b] \in DOMAIN Sites
  BY DEF TypeOK, Talking
<1>2. owns' \subseteq {c \in Builds : stage'[c] = "write"}
  BY <1>1, NextSiteType DEF TypeOK
<1>3. \A c \in Builds : stage'[c] \in Talking => try'[c] \in DOMAIN Sites
  BY <1>1, NextSiteType DEF TypeOK, Talking
<1> QED
  BY <1>1, <1>2, <1>3, NextSiteType DEF TypeOK, Talking, world

LEMMA TypeInit == Init => TypeOK
<1>1. 1 \in DOMAIN Sites /\ 1 \in 1 .. Len(Sites) + 1
  BY DownloadAssumption
<1> QED
  BY <1>1 DEF Init, TypeOK, Stages

\* One step of one build.
Step(b) == Start(b) \/ Go(b) \/ Cut(b) \/ Kill(b)

LEMMA TypeStep == ASSUME TypeOK, NEW b \in Builds, Step(b) PROVE TypeOK'
<1>0. /\ file \in {"absent", "part", "whole", "broken"} /\ tree \in BOOLEAN
      /\ disturbed \in BOOLEAN /\ (b \in owns => stage[b] = "write") /\ stage[b] \in Stages
  BY DEF TypeOK
<1>1. CASE Start(b)
  <2>1. 1 \in DOMAIN Sites /\ 1 \in 1 .. Len(Sites) + 1
    BY DownloadAssumption
  <2>2. /\ stage' \in [Builds -> Stages] /\ stage'[b] = "test"
        /\ \A c \in Builds \ {b} : stage'[c] = stage[c]
    BY <1>1, GoToType DEF Start, Stages
  <2>3. /\ try' \in [Builds -> 1 .. Len(Sites) + 1] /\ try'[b] = 1
        /\ \A c \in Builds \ {b} : try'[c] = try[c]
    BY <1>1, <2>1 DEF Start, TypeOK
  <2>4. UNCHANGED <<method, serves, file, tree, owns, disturbed>> /\ b \notin owns
    BY <1>0, <1>1 DEF Start, world
  <2> QED
    BY <2>1, <2>2, <2>3, <2>4 DEF TypeOK
<1>2. CASE TestExists(b)
  <2>1. PICK s \in {"extract", "checkout", "connect"} : GoTo(b, s)
    BY <1>2 DEF TestExists
  <2>2. UNCHANGED <<world, file, tree, try, owns, disturbed>> /\ stage[b] = "test"
    BY <1>2 DEF TestExists
  <2> QED
    BY <1>0, <2>1, <2>2, SameSiteType DEF Talking, Stages
<1>3. CASE NotServed(b) \/ CheckoutRefused(b)
  BY <1>0, <1>3, OtherSiteType DEF NotServed, CheckoutRefused, Talking
<1>4. CASE WgetOpens(b)
  <2>1. file' \in {"absent", "part", "whole", "broken"} /\ owns' \subseteq owns \cup {b}
    BY <1>0, <1>4 DEF WgetOpens, Open
  <2> QED
    BY <1>0, <1>4, <2>1, SameSiteType DEF WgetOpens, Talking, Stages
<1>5. CASE CheckoutBegins(b)
  BY <1>0, <1>5, SameSiteType DEF CheckoutBegins, Talking, Stages
<1>6. CASE Pack(b)
  BY <1>0, <1>6, SameSiteType DEF Pack, Open, Talking, Stages
<1>7. CASE Written(b)
  BY <1>0, <1>7, SameSiteType DEF Written, Talking, Stages
<1>8. CASE Extract(b)
  <2>1. PICK s \in {"extracted", "failed"} : GoTo(b, s)
    BY <1>8 DEF Extract
  <2> QED
    BY <1>0, <1>8, <2>1, SameSiteType DEF Extract, Talking, Stages
<1>9. CASE Cut(b)
  BY <1>0, <1>9, OtherSiteType DEF Cut, Talking
<1>10. CASE Kill(b)
  BY <1>0, <1>10, SameSiteType DEF Kill, Talking, Stages
<1> QED
  BY <1>1, <1>2, <1>3, <1>4, <1>5, <1>6, <1>7, <1>8, <1>9, <1>10 DEF Step, Go

\* Every variable of Download keeps its type.
THEOREM DownloadTypeCorrect == Spec => []TypeOK
<1>1. TypeOK /\ [Next]_vars => TypeOK'
  <2>1. CASE Next
    BY <2>1, TypeStep DEF Next, Step
  <2>2. CASE UNCHANGED vars
    BY <2>2 DEF vars, TypeOK
  <2> QED
    BY <2>1, <2>2
<1> QED
  BY TypeInit, <1>1, PTL DEF Spec

-----------------------------------------------------------------------------
(* With wget there is one writer at a time, and it began with nothing.     *)

OneWriter ==
  method = "wget" =>
    /\ \A b \in Builds : stage[b] \notin {"checkout", "clone"}
    /\ file # "broken"
    /\ file = "absent" => owns = {}
    /\ owns = {} /\ ~disturbed => file \in {"absent", "whole"}

WgetInv == TypeOK /\ OneWriter

LEMMA WgetStep == ASSUME WgetInv, NEW b \in Builds, Step(b) PROVE WgetInv'
<1> SUFFICES ASSUME method' = "wget" PROVE OneWriter'
  BY TypeStep DEF WgetInv, OneWriter
<1>0. UNCHANGED method /\ method = "wget" /\ TypeOK /\ (b \in owns => stage[b] = "write")
  BY DEF WgetInv, TypeOK, Step, Go, Start, TestExists, NotServed, WgetOpens, CheckoutRefused,
         CheckoutBegins, Pack, Written, Extract, Cut, Kill, world
<1>1. /\ \A c \in Builds : stage[c] \notin {"checkout", "clone"}
      /\ file \in {"absent", "part", "whole"}
      /\ file = "absent" => owns = {}
      /\ owns = {} /\ ~disturbed => file \in {"absent", "whole"}
  BY <1>0 DEF WgetInv, OneWriter, TypeOK
<1>2. ~Checkout(b)
  BY <1>0 DEF Checkout
<1>3. \A c \in Builds : stage'[c] \notin {"checkout", "clone"}
  <2>1. ASSUME NEW s \in Stages \ {"checkout", "clone"}, GoTo(b, s)
        PROVE  \A c \in Builds : stage'[c] \notin {"checkout", "clone"}
    BY <1>0, <1>1, <2>1, GoToType
  <2>2. CASE Start(b) \/ TestExists(b)
    BY <1>2, <2>1, <2>2 DEF Start, TestExists, Stages
  <2>3. CASE NotServed(b) \/ CheckoutRefused(b) \/ Cut(b)
    BY <2>1, <2>3 DEF NotServed, CheckoutRefused, Cut, NextSite, Stages
  <2>4. CASE WgetOpens(b) \/ Written(b) \/ Extract(b) \/ Kill(b)
    BY <2>1, <2>4 DEF WgetOpens, Written, Extract, Kill, Stages
  <2>5. CASE CheckoutBegins(b) \/ Pack(b)
    BY <1>1, <2>5 DEF CheckoutBegins, Pack
  <2> QED
    BY <2>2, <2>3, <2>4, <2>5 DEF Step, Go
<1> SUFFICES /\ file' # "broken"
             /\ file' = "absent" => owns' = {}
             /\ owns' = {} /\ ~disturbed' => file' \in {"absent", "whole"}
  BY <1>3 DEF OneWriter
<1>4. CASE Start(b) \/ TestExists(b) \/ NotServed(b) \/ CheckoutRefused(b) \/ Extract(b)
  BY <1>1, <1>4 DEF Start, TestExists, NotServed, CheckoutRefused, Extract
<1>5. CASE CheckoutBegins(b) \/ Pack(b)
  BY <1>1, <1>5 DEF CheckoutBegins, Pack
<1>6. CASE WgetOpens(b)
  BY <1>1, <1>6 DEF WgetOpens, Open
<1>7. CASE Written(b)
  BY <1>1, <1>7 DEF Written
<1>8. CASE Cut(b) \/ Kill(b)
  BY <1>1, <1>8 DEF Cut, Kill
<1> QED
  BY <1>4, <1>5, <1>6, <1>7, <1>8 DEF Step, Go

LEMMA WgetInvariance == Spec => []WgetInv
<1>1. Init => WgetInv
  BY TypeInit DEF Init, WgetInv, OneWriter
<1>2. WgetInv /\ [Next]_vars => WgetInv'
  <2>1. CASE Next
    BY <2>1, WgetStep DEF Next, Step
  <2>2. CASE UNCHANGED vars
    BY <2>2 DEF vars, WgetInv, OneWriter, TypeOK
  <2> QED
    BY <2>1, <2>2
<1> QED
  BY <1>1, <1>2, PTL DEF Spec

\* With wget, what nobody writes any more is complete unless something was cut short.
THEOREM WgetLeavesWhole == Spec => []WholeUnlessDisturbed
<1>1. WgetInv => WholeUnlessDisturbed
  BY DEF WgetInv, OneWriter, WholeUnlessDisturbed
<1> QED
  BY WgetInvariance, <1>1, PTL

\* With wget, an archive that is complete is never written again.
THEOREM WholeForGood == Spec => WholeStaysWhole
<1>1. WgetInv /\ [Next]_vars => [method = "wget" /\ file = "whole" => file' = "whole"]_vars
  <2> SUFFICES ASSUME WgetInv, Next, method = "wget", file = "whole" PROVE file' = "whole"
    OBVIOUS
  <2>1. PICK b \in Builds : Start(b) \/ Go(b) \/ Cut(b) \/ Kill(b)
    BY DEF Next
  <2>2. stage[b] # "clone"
    BY DEF WgetInv, OneWriter
  <2> QED
    BY <2>1, <2>2 DEF Go, Start, TestExists, NotServed, WgetOpens, CheckoutRefused,
       CheckoutBegins, Pack, Written, Extract, Cut, Kill
<1> QED
  BY WgetInvariance, <1>1, PTL DEF Spec, WholeStaysWhole
=============================================================================
