----------------------- MODULE ObsidianExchangeProofs -----------------------
(***************************************************************************)
(* Proofs about the compilation of a page and its exchange as Markdown.    *)
(*                                                                         *)
(* The claims of an answer are added one by one by a recursive function;   *)
(* what it computes follows by induction on the answer, from the least-    *)
(* number principle for sets of naturals.                                  *)
(***************************************************************************)
EXTENDS ObsidianExchange, FiniteSetTheorems, TLAPS

-----------------------------------------------------------------------------
\* An answer is persisted once, when its job SUCCEEDED.
Answered ==
    /\ \A i, k \in DOMAIN answers : answers[i] = answers[k] => i = k
    /\ \A j \in Jobs : jobs[j] = "SUCCEEDED" <=> \E i \in DOMAIN answers : answers[i] = j

\* What is read of the page exists.
Readings == \A e \in edits : e.read \in DOMAIN page

\* The draft of a request follows the version its file came from and has the file's text.
Drafted ==
    \A k \in Imports : drafts[k] # 0 =>
        /\ files[k] # NoFile
        /\ drafts[k] \in DOMAIN page
        /\ drafts[k] = files[k].base + 1
        /\ page[drafts[k]].protected = files[k].text

\* An import on its way to the edit read the version that its file came from.
Visiting ==
    \A v \in visits :
        /\ files[v.of] # NoFile
        /\ v.row.draft \in {0, drafts[v.of]}
        /\ v.at = "edit" => /\ files[v.of].base = v.read
                            /\ v.read \in DOMAIN page
                            /\ files[v.of].text \in Texts

Recorded == \A k \in Imports : imported[k].draft \in {0, drafts[k]}

\* The versions that only an import can have written: they say that they come from an
\* exported one, and the version before does not say the same.
Arrivals == {r \in DOMAIN page : page[r].by = "edit" /\ page[r].base # 0
                /\ (r = 1 \/ page[r - 1].base # page[r].base)}
Drafters == {k \in Imports : drafts[k] # 0}

Sourced ==
    /\ IsFiniteSet(Drafters)
    /\ \A r \in Arrivals : \E k \in Imports : drafts[k] = r

IInv ==
    /\ TypeOK /\ ExchangeTypeOK
    /\ Answered /\ EditsAreChained /\ DisagreementIsRaised
    /\ Readings /\ Drafted /\ Visiting /\ Recorded /\ Sourced

-----------------------------------------------------------------------------
(* Naturals and sequences *)

\* A set of naturals has a least element ...
LEMMA Least ==
  ASSUME NEW T \in SUBSET Nat, T # {}
  PROVE  \E x \in T : \A y \in T : x <= y
<1>1. PICK x \in T : \A y \in T : ~ (<<y, x>> \in OpToRel(<, Nat))
  BY NatLessThanWellFounded, WFMin, Zenon
<1>2. \A y \in T : ~ (y < x)
  BY <1>1 DEF OpToRel
<1>3. x \in Nat /\ \A y \in T : y \in Nat
  OBVIOUS
<1>4. \A y \in T : x <= y
  BY <1>2, <1>3
<1>5. QED
  BY <1>4

\* ... so one that has 0 and the successor of each of its elements has them all ...
LEMMA Induction ==
  ASSUME NEW T \in SUBSET Nat, 0 \in T, \A n \in T : n + 1 \in T
  PROVE  T = Nat
<1>1. ASSUME Nat \ T # {} PROVE FALSE
  <2>1. PICK x \in Nat \ T : \A y \in Nat \ T : x <= y
    BY <1>1, Least
  <2>2. x - 1 \in Nat
    BY <2>1
  <2>3. x - 1 \in T
    BY <2>1, <2>2
  <2>4. QED
    BY <2>1, <2>3
<1>2. QED
  BY <1>1

\* ... and one that is bounded has a greatest.
LEMMA Greatest ==
  ASSUME NEW T \in SUBSET Nat, T # {}, NEW n \in Nat, \A x \in T : x <= n
  PROVE  \E x \in T : \A y \in T : y <= x
<1> DEFINE B == {b \in Nat : \A x \in T : x <= b}
<1>1. PICK b \in B : \A c \in B : b <= c
  <2>1. n \in B
    OBVIOUS
  <2>2. B \in SUBSET Nat /\ B # {}
    BY <2>1
  <2> HIDE DEF B
  <2>3. QED
    BY <2>2, Least
<1>2. ASSUME b \notin T PROVE FALSE
  <2>1. PICK x \in T : x <= b
    OBVIOUS
  <2>2. b - 1 \in Nat
    BY <1>2, <2>1
  <2>3. \A y \in T : y <= b - 1
    BY <1>2
  <2>4. b - 1 \in B
    BY <2>2, <2>3
  <2>5. QED
    BY <1>1, <2>2, <2>4
<1>3. QED
  BY <1>2

\* What Append adds, element by element
LEMMA Appended ==
  ASSUME NEW S, NEW s \in Seq(S), NEW x \in S
  PROVE  /\ Append(s, x) \in Seq(S)
         /\ Len(s) \in Nat /\ Len(Append(s, x)) = Len(s) + 1
         /\ DOMAIN s = 1..Len(s)
         /\ DOMAIN Append(s, x) = 1..(Len(s) + 1)
         /\ \A i \in 1..Len(s) : Append(s, x)[i] = s[i]
         /\ Append(s, x)[Len(s) + 1] = x
OBVIOUS

-----------------------------------------------------------------------------
(* The claims of an answer *)

\* DisagreementIsRaised and the types, of claims and conflicts on their way
Fine(known) ==
    /\ known.claims \in Seq(Claims)
    /\ known.conflicts \subseteq (DOMAIN known.claims) \X (DOMAIN known.claims)
    /\ \A k \in DOMAIN known.claims :
           (\E l \in 1..(k - 1) : known.claims[l].says # known.claims[k].says)
               => \E l \in 1..(k - 1) : /\ <<l, k>> \in known.conflicts
                                       /\ known.claims[l].says # known.claims[k].says

\* Prior is one claim, if any says something else.
LEMMA PriorIsOne ==
  ASSUME NEW known \in Seq(Claims), NEW s
  PROVE  /\ Prior(known, s) \subseteq {k \in DOMAIN known : known[k].says # s}
         /\ (\E k \in DOMAIN known : known[k].says # s) => Prior(known, s) # {}
<1> DEFINE Other == {k \in DOMAIN known : known[k].says # s}
<1>1. /\ Len(known) \in Nat
      /\ Other \in SUBSET Nat
      /\ \A k \in Other : k <= Len(known)
  OBVIOUS
<1>2. Prior(known, s) = {k \in Other : \A l \in Other : l <= k}
  BY DEF Prior
<1>3. Other # {} => \E k \in Other : \A l \in Other : l <= k
  <2> HIDE DEF Other
  <2>1. QED
    BY <1>1, Greatest
<1>4. QED
  BY <1>2, <1>3

LEMMA WithClaimFine ==
  ASSUME NEW j \in Jobs, NEW anchor \in BOOLEAN, NEW s \in Statements, NEW known, Fine(known)
  PROVE  Fine(WithClaim(j, anchor, s, known))
<1> DEFINE same == {k \in DOMAIN known.claims : known.claims[k].job = j /\ known.claims[k].says = s}
           new == [job |-> j, says |-> s, status |-> ClaimStatus(anchor),
                   evidence |-> anchor /\ j \in anchored]
           all == IF same = {} THEN Append(known.claims, new) ELSE known.claims
           right == IF same = {} THEN Len(all) ELSE CHOOSE k \in same : TRUE
           raised == known.conflicts \cup {<<k, right>> : k \in Prior(known.claims, s)}
<1>1. PICK w : /\ w = WithClaim(j, anchor, s, known)
               /\ w.claims = all /\ w.conflicts = raised
  <2>1. WithClaim(j, anchor, s, known) = [claims |-> all, conflicts |-> raised]
    BY DEF WithClaim
  <2> HIDE DEF all, raised
  <2>2. QED
    BY <2>1
<1>2. known.claims \in Seq(Claims) /\ Len(known.claims) \in Nat /\ DOMAIN known.claims = 1..Len(known.claims)
  BY DEF Fine
<1>3. Prior(known.claims, s) \subseteq DOMAIN known.claims
  BY <1>2, PriorIsOne
<1>4. CASE same = {}
  <2>1. new \in Claims
    BY DEF Claims, ClaimStatus
  <2>2. /\ all \in Seq(Claims)
        /\ DOMAIN all = 1..(Len(known.claims) + 1)
        /\ \A i \in 1..Len(known.claims) : all[i] = known.claims[i]
        /\ all[Len(known.claims) + 1] = new
        /\ right = Len(known.claims) + 1
    <3> HIDE DEF new
    <3>1. QED
      BY <1>2, <1>4, <2>1, Appended
  <2> HIDE DEF all, right, new
  <2>3. raised \subseteq (DOMAIN all) \X (DOMAIN all)
    <3>1. DOMAIN known.claims \subseteq DOMAIN all /\ right \in DOMAIN all
      BY <1>2, <2>2
    <3>2. QED
      BY <1>3, <3>1 DEF Fine
  <2>4. ASSUME NEW k \in 1..Len(known.claims), NEW l \in 1..(k - 1), all[l].says # all[k].says
        PROVE  \E m \in 1..(k - 1) : <<m, k>> \in raised /\ all[m].says # all[k].says
    <3>1. all[l] = known.claims[l] /\ all[k] = known.claims[k]
      BY <1>2, <2>2
    <3>2. PICK m \in 1..(k - 1) : <<m, k>> \in known.conflicts /\ known.claims[m].says # known.claims[k].says
      BY <1>2, <2>4, <3>1 DEF Fine
    <3>3. all[m] = known.claims[m]
      BY <1>2, <2>2
    <3>4. QED
      BY <3>1, <3>2, <3>3
  <2>5. ASSUME NEW l \in 1..Len(known.claims), all[l].says # new.says
        PROVE  \E m \in 1..Len(known.claims) : <<m, right>> \in raised /\ all[m].says # new.says
    <3>1. new.says = s
      BY DEF new
    <3>2. known.claims[l].says # s
      BY <2>2, <2>5, <3>1
    <3>3. Prior(known.claims, s) # {}
      BY <1>2, <3>2, PriorIsOne
    <3>4. PICK m \in Prior(known.claims, s) : TRUE
      BY <3>3
    <3>5. m \in 1..Len(known.claims) /\ known.claims[m].says # s
      BY <1>2, PriorIsOne
    <3>6. QED
      BY <2>2, <3>1, <3>4, <3>5
  <2>6. \A k \in DOMAIN all :
            (\E l \in 1..(k - 1) : all[l].says # all[k].says)
                => \E l \in 1..(k - 1) : <<l, k>> \in raised /\ all[l].says # all[k].says
    <3>1. ASSUME NEW k \in DOMAIN all, NEW l \in 1..(k - 1), all[l].says # all[k].says
          PROVE  \E m \in 1..(k - 1) : <<m, k>> \in raised /\ all[m].says # all[k].says
      <4>1. CASE k \in 1..Len(known.claims)
        BY <2>4, <3>1, <4>1
      <4>2. CASE k = Len(known.claims) + 1
        <5>1. k - 1 = Len(known.claims) /\ all[k] = new /\ k = right
          BY <1>2, <2>2, <4>2
        <5>2. QED
          BY <2>5, <3>1, <5>1
      <4>3. QED
        BY <1>2, <2>2, <4>1, <4>2
    <3>2. QED
      BY <3>1
  <2> HIDE DEF raised
  <2>7. Fine(w)
    BY <1>1, <2>2, <2>3, <2>6 DEF Fine
  <2>8. QED
    BY <1>1, <2>7
<1>5. CASE same # {}
  <2>1. right \in DOMAIN known.claims
    BY <1>5
  <2> HIDE DEF right
  <2>2. all = known.claims
    BY <1>5
  <2>3. raised \subseteq (DOMAIN known.claims) \X (DOMAIN known.claims) /\ known.conflicts \subseteq raised
    BY <1>3, <2>1 DEF Fine
  <2> HIDE DEF all, raised
  <2>4. /\ w.claims = known.claims /\ known.conflicts \subseteq w.conflicts
        /\ w.conflicts \subseteq (DOMAIN w.claims) \X (DOMAIN w.claims)
    BY <1>1, <2>2, <2>3
  <2>5. ASSUME NEW k \in DOMAIN w.claims, \E l \in 1..(k - 1) : w.claims[l].says # w.claims[k].says
        PROVE  \E l \in 1..(k - 1) : <<l, k>> \in w.conflicts /\ w.claims[l].says # w.claims[k].says
    <3>1. PICK l \in 1..(k - 1) : <<l, k>> \in known.conflicts /\ known.claims[l].says # known.claims[k].says
      BY <2>4, <2>5 DEF Fine
    <3>2. QED
      BY <2>4, <3>1
  <2>6. Fine(w)
    BY <1>2, <2>4, <2>5 DEF Fine
  <2>7. QED
    BY <1>1, <2>6
<1>6. QED
  BY <1>4, <1>5

\* An answer is added statement by statement: the recursive function of Told exists ...
LEMMA ToldExists ==
  ASSUME NEW j, NEW anchor, NEW answer, NEW m \in Nat, NEW base
  PROVE  \E f : f = [i \in 0..m |-> IF i = 0 THEN base ELSE WithClaim(j, anchor, answer[i], f[i - 1])]
<1> DEFINE T == {n \in Nat : \E f :
                     f = [i \in 0..n |-> IF i = 0 THEN base ELSE WithClaim(j, anchor, answer[i], f[i - 1])]}
<1>1. 0 \in T
  <2>1. PICK f : f = [i \in 0..0 |-> base]
    OBVIOUS
  <2>2. f = [i \in 0..0 |-> IF i = 0 THEN base ELSE WithClaim(j, anchor, answer[i], f[i - 1])]
    BY <2>1
  <2>3. QED
    BY <2>2
<1>2. ASSUME NEW n \in T PROVE n + 1 \in T
  <2>1. PICK f : f = [i \in 0..n |-> IF i = 0 THEN base ELSE WithClaim(j, anchor, answer[i], f[i - 1])]
    OBVIOUS
  <2>2. PICK g : g = [i \in 0..(n + 1) |-> IF i = n + 1 THEN WithClaim(j, anchor, answer[n + 1], f[n]) ELSE f[i]]
    OBVIOUS
  <2>3. n \in Nat /\ n + 1 # 0 /\ (n + 1) - 1 = n
    OBVIOUS
  <2>4. \A i \in 0..n : g[i] = f[i] /\ (i # 0 => g[i - 1] = f[i - 1])
    BY <2>2, <2>3
  <2>5. ASSUME NEW i \in 0..n
        PROVE  g[i] = IF i = 0 THEN base ELSE WithClaim(j, anchor, answer[i], g[i - 1])
    <3>1. f[i] = IF i = 0 THEN base ELSE WithClaim(j, anchor, answer[i], f[i - 1])
      BY <2>1
    <3>2. QED
      BY <2>4, <3>1
  <2>6. g[n + 1] = WithClaim(j, anchor, answer[n + 1], g[(n + 1) - 1])
    <3>1. g[n + 1] = WithClaim(j, anchor, answer[n + 1], f[n])
      BY <2>2, <2>3
    <3>2. QED
      BY <2>3, <2>4, <3>1
  <2>7. \A i \in 0..(n + 1) : i \in 0..n \/ i = n + 1
    BY <2>3
  <2>8. \A i \in 0..(n + 1) : g[i] = IF i = 0 THEN base ELSE WithClaim(j, anchor, answer[i], g[i - 1])
    BY <2>3, <2>5, <2>6, <2>7
  <2>9. g = [i \in 0..(n + 1) |-> IF i = 0 THEN base ELSE WithClaim(j, anchor, answer[i], g[i - 1])]
    BY <2>2, <2>8
  <2>10. QED
    BY <2>9
<1>3. T \in SUBSET Nat
  OBVIOUS
<1>4. T = Nat
  <2> HIDE DEF T
  <2>1. QED
    BY <1>1, <1>2, <1>3, Induction
<1>5. QED
  BY <1>4

\* ... and keeps what each statement keeps.
LEMMA ToldFine ==
  ASSUME TypeOK, DisagreementIsRaised, NEW j \in Jobs, NEW anchor \in BOOLEAN, NEW answer \in Answers
  PROVE  Fine(Told(j, anchor, answer))
<1> DEFINE base == [claims |-> claims, conflicts |-> conflicts]
           F == CHOOSE f : f = [i \in 0..Len(answer) |->
                    IF i = 0 THEN base ELSE WithClaim(j, anchor, answer[i], f[i - 1])]
           T == {n \in Nat : n <= Len(answer) => Fine(F[n])}
<1>1. answer \in Seq(Statements) /\ Len(answer) \in Nat
  BY AnswersAssumption
<1>2. F = [i \in 0..Len(answer) |-> IF i = 0 THEN base ELSE WithClaim(j, anchor, answer[i], F[i - 1])]
  <2> HIDE DEF base
  <2>1. QED
    BY <1>1, ToldExists
<1>3. Told(j, anchor, answer) = F[Len(answer)]
  BY DEF Told
<1>4. Fine(base)
  BY DEF Fine, TypeOK, DisagreementIsRaised
<1> HIDE DEF base, F
<1>5. 0 \in T
  BY <1>1, <1>2, <1>4
<1>6. ASSUME NEW n \in T PROVE n + 1 \in T
  <2>1. SUFFICES ASSUME n + 1 <= Len(answer) PROVE Fine(F[n + 1])
    OBVIOUS
  <2>2. n \in Nat /\ n + 1 \in 0..Len(answer) /\ n + 1 # 0 /\ (n + 1) - 1 = n /\ n <= Len(answer)
    BY <1>1, <2>1
  <2>3. F[n + 1] = WithClaim(j, anchor, answer[n + 1], F[n])
    BY <1>2, <2>2
  <2>4. Fine(F[n])
    BY <2>2
  <2>5. answer[n + 1] \in Statements
    BY <1>1, <2>2
  <2>6. QED
    BY <2>3, <2>4, <2>5, WithClaimFine
<1>7. T = Nat
  <2>1. T \in SUBSET Nat
    OBVIOUS
  <2> HIDE DEF T
  <2>2. QED
    BY <1>5, <1>6, <2>1, Induction
<1>8. QED
  BY <1>1, <1>3, <1>7

-----------------------------------------------------------------------------
(* Steps that leave answers, claims and the page alone *)

Still == UNCHANGED <<anchored, answers, claims, conflicts, page, editVars>>

LEMMA LeaveType ==
  ASSUME TypeOK, NEW a \in DOMAIN attempts, NEW x \in {"thinking", "done"}, NEW b \in BOOLEAN
  PROVE  [attempts EXCEPT ![a].at = x, ![a].anchor = b] \in Seq(Attempts)
<1>1. attempts \in Seq(Attempts) /\ attempts[a] \in Attempts
  BY DEF TypeOK
<1>2. PICK n : n = [attempts[a] EXCEPT !.at = x, !.anchor = b]
  OBVIOUS
<1>3. n \in Attempts
  BY <1>1, <1>2 DEF Attempts
<1>4. [attempts EXCEPT ![a] = n] \in Seq(Attempts)
  BY <1>1, <1>3
<1>5. [attempts EXCEPT ![a].at = x, ![a].anchor = b] = [attempts EXCEPT ![a] = n]
  BY <1>1, <1>2
<1>6. QED
  BY <1>4, <1>5

LEMMA ReportType ==
  ASSUME TypeOK, NEW j \in Jobs, Report(j)
  PROVE  runs' \in [Jobs -> {"none", "open", "failing", "failed", "succeeded"}]
BY DEF TypeOK, Report

\* The routes and the workflow: no job becomes SUCCEEDED, none that is ceases to be.
LEMMA RouteSteps ==
  ASSUME TypeOK, Answered, NEW j \in Jobs,
         \/ CreateCompileJob(j) \/ StartRun(j) \/ MarkCompileStarted(j)
         \/ Schedule(j) \/ GiveUp(j) \/ FailCompile(j)
  PROVE  TypeOK' /\ Answered' /\ Still
<1>1. Still
  BY DEF CreateCompileJob, StartRun, MarkCompileStarted, Schedule, GiveUp, FailCompile, Still
<1>2. /\ jobs' \in [Jobs -> Statuses]
      /\ runs' \in [Jobs -> {"none", "open", "failing", "failed", "succeeded"}]
  BY DEF TypeOK, Statuses, CreateCompileJob, StartRun, MarkCompileStarted, Schedule, GiveUp, FailCompile
<1>3. attempts' \in Seq(Attempts)
  <2>1. CASE Schedule(j)
    <3>1. [job |-> j, at |-> "scheduled", anchor |-> FALSE] \in Attempts
      BY DEF Attempts
    <3>2. QED
      BY <2>1, <3>1 DEF Schedule, TypeOK
  <2>2. CASE ~ Schedule(j)
    BY <2>2 DEF CreateCompileJob, StartRun, MarkCompileStarted, GiveUp, FailCompile, TypeOK
  <2>3. QED
    BY <2>1, <2>2
<1>4. TypeOK'
  BY <1>1, <1>2, <1>3 DEF TypeOK, Still, editVars, Content
<1>5. \A i \in Jobs : jobs'[i] = "SUCCEEDED" <=> jobs[i] = "SUCCEEDED"
  BY DEF TypeOK, CreateCompileJob, StartRun, MarkCompileStarted, Schedule, GiveUp, FailCompile, Failable
<1>6. Answered'
  BY <1>1, <1>5 DEF Answered, Still
<1>7. QED
  BY <1>1, <1>4, <1>6

LEMMA SourceSteps ==
  ASSUME TypeOK, Answered, NEW j \in Jobs, InvalidateSource(j)
  PROVE  /\ TypeOK' /\ Answered'
         /\ UNCHANGED <<answers, claims, conflicts, page, editVars>>
<1>1. UNCHANGED <<jobs, runs, attempts, answers, claims, conflicts, page, edits, edited>> /\ anchored' \subseteq Jobs
  BY DEF InvalidateSource, editVars, TypeOK
<1>2. TypeOK'
  BY <1>1 DEF TypeOK, Content
<1>3. Answered'
  BY <1>1 DEF Answered
<1>4. QED
  BY <1>1, <1>2, <1>3 DEF editVars

\* An attempt that finds its job done, starts or fails.
LEMMA AttemptSteps ==
  ASSUME TypeOK, Answered, NEW a \in DOMAIN attempts,
         AlreadyDone(a) \/ StartCompile(a) \/ AttemptFails(a)
  PROVE  TypeOK' /\ Answered' /\ Still
<1>1. Still
  BY DEF AlreadyDone, StartCompile, AttemptFails, Still
<1>2. attempts[a].job \in Jobs
  <2>1. attempts \in Seq(Attempts)
    BY DEF TypeOK
  <2>2. attempts[a] \in Attempts
    BY <2>1
  <2>3. QED
    BY <2>2 DEF Attempts
<1>3. attempts' \in Seq(Attempts)
  <2>1. (attempts[a].job \in anchored) \in BOOLEAN
    OBVIOUS
  <2>2. PICK b \in BOOLEAN : b = (attempts[a].job \in anchored)
    BY <2>1
  <2>3. \E x \in {"thinking", "done"}, c \in BOOLEAN :
            attempts' = [attempts EXCEPT ![a].at = x, ![a].anchor = c]
    <3>1. CASE StartCompile(a)
      BY <2>2, <3>1 DEF StartCompile
    <3>2. CASE AlreadyDone(a) \/ AttemptFails(a)
      BY <3>2 DEF AlreadyDone, AttemptFails, Leave
    <3>3. QED
      BY <3>1, <3>2
  <2>4. QED
    BY <2>3, LeaveType
<1>4. jobs' \in [Jobs -> Statuses]
  BY <1>2 DEF TypeOK, Statuses, AlreadyDone, StartCompile, AttemptFails
<1>5. runs' \in [Jobs -> {"none", "open", "failing", "failed", "succeeded"}]
  BY <1>2, ReportType DEF TypeOK, AlreadyDone, StartCompile, AttemptFails
<1>6. TypeOK'
  BY <1>1, <1>3, <1>4, <1>5 DEF TypeOK, Still, editVars, Content
<1>7. \A i \in Jobs : jobs'[i] = "SUCCEEDED" <=> jobs[i] = "SUCCEEDED"
  BY <1>2 DEF TypeOK, AlreadyDone, StartCompile, AttemptFails
<1>8. Answered'
  BY <1>1, <1>7 DEF Answered, Still
<1>9. QED
  BY <1>1, <1>6, <1>8

-----------------------------------------------------------------------------
(* The page *)

\* The page with one more version
LEMMA Written ==
  ASSUME TypeOK, NEW w \in Versions, ~ Known(page, w), page' = Append(page, w)
  PROVE  /\ page' \in Seq(Versions)
         /\ \A i, k \in DOMAIN page' : Content(page'[i]) = Content(page'[k]) => i = k
         /\ Len(page) \in Nat
         /\ DOMAIN page = 1..Len(page) /\ DOMAIN page' = 1..(Len(page) + 1)
         /\ \A i \in 1..Len(page) : page'[i] = page[i]
         /\ page'[Len(page) + 1] = w
<1>1. page \in Seq(Versions) /\ \A i, k \in DOMAIN page : Content(page[i]) = Content(page[k]) => i = k
  BY DEF TypeOK
<1>2. /\ page' \in Seq(Versions)
      /\ Len(page) \in Nat
      /\ DOMAIN page = 1..Len(page) /\ DOMAIN page' = 1..(Len(page) + 1)
      /\ \A i \in 1..Len(page) : page'[i] = page[i]
      /\ page'[Len(page) + 1] = w
  BY <1>1, Appended
<1>3. \A i \in 1..Len(page) : Content(page[i]) # Content(w)
  BY <1>2 DEF Known
<1>4. ASSUME NEW i \in DOMAIN page', NEW k \in DOMAIN page', Content(page'[i]) = Content(page'[k])
      PROVE  i = k
  <2>1. (i \in 1..Len(page) \/ i = Len(page) + 1) /\ (k \in 1..Len(page) \/ k = Len(page) + 1)
    BY <1>2
  <2>2. QED
    BY <1>1, <1>2, <1>3, <1>4, <2>1
<1>5. QED
  BY <1>2, <1>4

\* What the page and its exchange have together; a compilation or an edit of the page keeps it.
Exchange == Readings /\ Drafted /\ Visiting /\ Recorded /\ Sourced

LEMMA PageStands ==
  ASSUME TypeOK, EditsAreChained, Exchange, page' = page, edits' \subseteq edits, UNCHANGED exchangeVars
  PROVE  EditsAreChained' /\ Exchange'
<1>1. UNCHANGED <<page, files, drafts, imported, visits>>
  BY DEF exchangeVars
<1>2. EditsAreChained' /\ Readings' /\ Drafted' /\ Visiting' /\ Recorded'
  BY <1>1 DEF EditsAreChained, Readings, Drafted, Visiting, Recorded, Exchange
<1>3. Arrivals' = Arrivals /\ Drafters' = Drafters
  BY <1>1 DEF Arrivals, Drafters
<1>4. Sourced'
  BY <1>1, <1>3 DEF Sourced, Exchange
<1>5. QED
  BY <1>2, <1>4 DEF Exchange

LEMMA PageGrows ==
  ASSUME TypeOK, ExchangeTypeOK, EditsAreChained, Exchange, NEW w \in Versions, ~ Known(page, w), page' = Append(page, w),
         w.by = "edit" => /\ w.read = Len(page) /\ page # << >>
                          /\ w.base = page[Len(page)].base,
         edits' \subseteq edits, UNCHANGED exchangeVars
  PROVE  EditsAreChained' /\ Exchange'
<1>1. UNCHANGED <<files, drafts, imported, visits>>
  BY DEF exchangeVars
<1>2. /\ Len(page) \in Nat
      /\ DOMAIN page = 1..Len(page) /\ DOMAIN page' = 1..(Len(page) + 1)
      /\ DOMAIN page \subseteq DOMAIN page'
      /\ \A i \in 1..Len(page) : page'[i] = page[i]
      /\ page'[Len(page) + 1] = w
      /\ \A i \in DOMAIN page' : i \in 1..Len(page) \/ i = Len(page) + 1
  BY Written
<1>3. EditsAreChained'
  BY <1>2 DEF EditsAreChained
<1>4. Readings' /\ Recorded'
  BY <1>1, <1>2 DEF Exchange, Readings, Recorded
<1>5. Drafted'
  BY <1>1, <1>2 DEF Exchange, Drafted
<1>6. Visiting'
  BY <1>1, <1>2 DEF Exchange, Visiting
<1>7. Arrivals' \subseteq Arrivals
  <2>1. ASSUME NEW r \in Arrivals' PROVE r \in Arrivals
    <3>1. /\ r \in DOMAIN page' /\ page'[r].by = "edit" /\ page'[r].base # 0
          /\ r = 1 \/ page'[r - 1].base # page'[r].base
      BY DEF Arrivals
    <3>2. CASE r \in 1..Len(page)
      <4>1. page'[r] = page[r] /\ (r # 1 => r - 1 \in 1..Len(page))
        BY <1>2, <3>2
      <4>2. r # 1 => page'[r - 1] = page[r - 1]
        BY <1>2, <4>1
      <4>3. QED
        BY <1>2, <3>1, <3>2, <4>1, <4>2 DEF Arrivals
    <3>3. CASE r = Len(page) + 1
      <4>1. w.by = "edit" /\ page'[r] = w
        BY <1>2, <3>1, <3>3
      <4>2. Len(page) # 0 /\ w.base = page[Len(page)].base
        BY <4>1 DEF TypeOK
      <4>3. r # 1 /\ r - 1 = Len(page) /\ Len(page) \in 1..Len(page)
        BY <1>2, <3>3, <4>2
      <4>4. page'[r - 1].base = page[Len(page)].base
        BY <1>2, <4>3
      <4>5. QED
        BY <3>1, <4>1, <4>2, <4>3, <4>4
    <3>4. QED
      BY <1>2, <3>1, <3>2, <3>3
  <2>2. QED
    BY <2>1
<1>8. Drafters' = Drafters
  BY <1>1 DEF Drafters
<1>9. Sourced'
  BY <1>1, <1>7, <1>8 DEF Sourced, Exchange
<1>10. QED
  BY <1>3, <1>4, <1>5, <1>6, <1>9 DEF Exchange

\* The version that a compilation would write
Composed(s) == [generated |-> s, protected |-> Protected(page), base |-> BaseOf(page),
                by |-> "compile", read |-> Len(page)]

LEMMA ComposedFacts ==
  ASSUME TypeOK, NEW s \in Statements
  PROVE  /\ Composed(s) \in Versions
         /\ \/ CompiledPage(s) = page
            \/ CompiledPage(s) = Append(page, Composed(s)) /\ ~ Known(page, Composed(s))
<1>1. page \in Seq(Versions) /\ Len(page) \in Nat
  BY DEF TypeOK
<1>2. page # << >> => Last(page) \in Versions
  BY <1>1 DEF Last
<1>3. Protected(page) \in Texts \cup {NoText} /\ BaseOf(page) \in Nat
  BY <1>2 DEF Protected, BaseOf, Versions
<1>4. Composed(s) \in Versions
  BY <1>1, <1>3 DEF Composed, Versions
<1>5. CompiledPage(s) = IF Known(page, Composed(s)) THEN page ELSE Append(page, Composed(s))
  BY DEF CompiledPage, Composed
<1>6. QED
  BY <1>4, <1>5

\* The second transaction of the compile activity
LEMMA PersistSteps ==
  ASSUME TypeOK, ExchangeTypeOK, Answered, EditsAreChained, DisagreementIsRaised, Exchange,
         NEW a \in DOMAIN attempts, NEW answer \in Answers, PersistCompile(a, answer),
         UNCHANGED exchangeVars
  PROVE  TypeOK' /\ Answered' /\ EditsAreChained' /\ DisagreementIsRaised' /\ Exchange'
<1> DEFINE j == attempts[a].job
           known == Told(j, attempts[a].anchor, answer)
<1>1. attempts[a] \in Attempts
  <2>1. attempts \in Seq(Attempts)
    BY DEF TypeOK
  <2>2. QED
    BY <2>1
<1>2. j \in Jobs /\ attempts[a].anchor \in BOOLEAN
  BY <1>1 DEF Attempts
<1>3. Head(answer) \in Statements
  BY AnswersAssumption
<1>4. /\ jobs[j] # "SUCCEEDED"
      /\ answers' = Append(answers, j)
      /\ claims' = known.claims /\ conflicts' = known.conflicts
      /\ page' = CompiledPage(Head(answer))
      /\ jobs' = [jobs EXCEPT ![j] = "SUCCEEDED"]
      /\ Report(j)
      /\ UNCHANGED <<anchored, edits, edited>>
  BY DEF PersistCompile, Unfinished, editVars
<1>5. Fine(known)
  BY <1>2, ToldFine
<1>6. attempts' \in Seq(Attempts)
  BY LeaveType DEF PersistCompile, Leave
<1> HIDE DEF known, j
<1>7. /\ claims' \in Seq(Claims)
      /\ conflicts' \subseteq (DOMAIN claims') \X (DOMAIN claims')
      /\ DisagreementIsRaised'
  BY <1>4, <1>5 DEF Fine, DisagreementIsRaised
<1>8. /\ answers' \in Seq(Jobs)
      /\ Len(answers) \in Nat
      /\ DOMAIN answers = 1..Len(answers) /\ DOMAIN answers' = 1..(Len(answers) + 1)
      /\ \A i \in 1..Len(answers) : answers'[i] = answers[i]
      /\ answers'[Len(answers) + 1] = j
      /\ \A i \in DOMAIN answers' : i \in 1..Len(answers) \/ i = Len(answers) + 1
  <2>1. answers \in Seq(Jobs)
    BY DEF TypeOK
  <2>2. QED
    BY <1>2, <1>4, <2>1, Appended
<1>9. Answered'
  <2>1. \A i \in 1..Len(answers) : answers[i] # j
    BY <1>2, <1>4, <1>8 DEF Answered
  <2>2. \A i, k \in DOMAIN answers' : answers'[i] = answers'[k] => i = k
    BY <1>8, <2>1 DEF Answered
  <2>3. jobs'[j] = "SUCCEEDED" /\ \A i \in Jobs \ {j} : jobs'[i] = jobs[i]
    BY <1>2, <1>4 DEF TypeOK
  <2>4. ASSUME NEW i \in Jobs
        PROVE  jobs'[i] = "SUCCEEDED" <=> \E k \in DOMAIN answers' : answers'[k] = i
    <3>1. CASE i = j
      <4>1. Len(answers) + 1 \in DOMAIN answers'
        BY <1>8
      <4>2. QED
        BY <1>8, <2>3, <3>1, <4>1
    <3>2. CASE i # j
      <4>1. jobs'[i] = jobs[i]
        BY <2>3, <3>2
      <4>2. (\E k \in DOMAIN answers : answers[k] = i) <=> (\E k \in DOMAIN answers' : answers'[k] = i)
        BY <1>8, <3>2
      <4>3. QED
        BY <4>1, <4>2 DEF Answered
    <3>3. QED
      BY <3>1, <3>2
  <2>5. QED
    BY <2>2, <2>4 DEF Answered
<1>10. /\ page' \in Seq(Versions)
       /\ \A i, k \in DOMAIN page' : Content(page'[i]) = Content(page'[k]) => i = k
       /\ EditsAreChained' /\ Exchange'
  <2>1. edits' \subseteq edits
    BY <1>4
  <2>2. CASE page' = page
    BY <2>1, <2>2, PageStands DEF TypeOK
  <2>3. CASE page' = Append(page, Composed(Head(answer))) /\ ~ Known(page, Composed(Head(answer)))
    <3>1. Composed(Head(answer)) \in Versions /\ Composed(Head(answer)).by # "edit"
      BY <1>3, ComposedFacts DEF Composed
    <3>2. QED
      BY <2>1, <2>3, <3>1, Written, PageGrows
  <2>4. QED
    BY <1>3, <1>4, <2>2, <2>3, ComposedFacts
<1>11. /\ jobs' \in [Jobs -> Statuses]
       /\ runs' \in [Jobs -> {"none", "open", "failing", "failed", "succeeded"}]
  BY <1>2, <1>4, ReportType DEF TypeOK, Statuses
<1>12. TypeOK'
  BY <1>4, <1>6, <1>7, <1>8, <1>10, <1>11 DEF TypeOK
<1>13. QED
  BY <1>7, <1>9, <1>10, <1>12

\* Somebody reads the page, and writes it.
LEMMA EditorSteps ==
  ASSUME TypeOK, ExchangeTypeOK, EditsAreChained, Exchange, UNCHANGED exchangeVars,
         (\E text \in Texts : ReadPage(text)) \/ (\E e \in edits : EditPage(e))
  PROVE  TypeOK' /\ EditsAreChained' /\ Exchange' /\ UNCHANGED compileVars
<1>1. UNCHANGED <<jobs, runs, attempts, anchored, answers, claims, conflicts>>
  BY DEF ReadPage, EditPage, compileVars
<1>2. page \in Seq(Versions) /\ Len(page) \in Nat /\ DOMAIN page = 1..Len(page) /\ edited \in 0..MaxWork
  BY DEF TypeOK
<1>3. ASSUME NEW text \in Texts, ReadPage(text)
      PROVE  TypeOK' /\ EditsAreChained' /\ Exchange'
  <2>1. /\ page # << >> /\ Room /\ page' = page /\ edited' = edited + 1
        /\ edits' = edits \cup {[read |-> Len(page), text |-> text]}
    BY <1>3 DEF ReadPage
  <2>2. Len(page) \in DOMAIN page
    BY <1>2, <2>1
  <2>3. edits' \subseteq Edits
    BY <1>2, <1>3, <2>1 DEF TypeOK, Edits
  <2>4. edited' \in 0..MaxWork
    <3>1. Len(attempts) \in Nat
      BY DEF TypeOK
    <3>2. QED
      BY <1>2, <2>1, <3>1, BoundAssumption DEF Room
  <2>5. TypeOK'
    BY <1>1, <2>1, <2>3, <2>4 DEF TypeOK, Content
  <2>6. Readings'
    BY <2>1, <2>2 DEF Readings, Exchange
  <2>7. UNCHANGED <<page, files, drafts, imported, visits>>
    BY <2>1 DEF exchangeVars
  <2>8. EditsAreChained' /\ Drafted' /\ Visiting' /\ Recorded'
    BY <2>7 DEF EditsAreChained, Drafted, Visiting, Recorded, Exchange
  <2>9. Arrivals' = Arrivals /\ Drafters' = Drafters
    BY <2>7 DEF Arrivals, Drafters
  <2>10. Sourced'
    BY <2>7, <2>9 DEF Sourced, Exchange
  <2>11. QED
    BY <2>5, <2>6, <2>8, <2>10 DEF Exchange
<1>4. ASSUME NEW e \in edits, EditPage(e)
      PROVE  TypeOK' /\ EditsAreChained' /\ Exchange'
  <2>1. edits' \subseteq edits /\ edited' = edited
    BY <1>4 DEF EditPage
  <2>2. e \in Edits /\ e.read \in DOMAIN page
    BY DEF TypeOK, Readings, Exchange
  <2>3. Last(page) = page[Len(page)] /\ Len(page) # 0 /\ page # << >>
    BY <1>2, <2>2 DEF Last
  <2>4. page[Len(page)] \in Versions
    BY <1>2, <2>3
  <2>5. BaseOf(page) = page[Len(page)].base
    BY <2>3 DEF BaseOf
  <2> DEFINE w == Edited(e, BaseOf(page))
  <2>6. /\ w \in Versions
        /\ w.read = e.read /\ w.base = page[Len(page)].base
    BY <2>2, <2>3, <2>4, <2>5 DEF Edited, Edits, Versions
  <2> HIDE DEF w
  <2>7. /\ page' \in Seq(Versions)
        /\ \A i, k \in DOMAIN page' : Content(page'[i]) = Content(page'[k]) => i = k
        /\ EditsAreChained' /\ Exchange'
    <3>1. CASE page' = page
      BY <2>1, <3>1, PageStands DEF TypeOK
    <3>2. CASE page' = Append(page, w) /\ ~ Known(page, w) /\ e.read = Len(page)
      <4>1. w.by = "edit" => /\ w.read = Len(page) /\ page # << >>
                             /\ w.base = page[Len(page)].base
        BY <2>3, <2>6, <3>2
      <4>2. QED
        BY <2>1, <2>6, <3>2, <4>1, Written, PageGrows
    <3>3. QED
      BY <1>4, <3>1, <3>2 DEF EditPage, Editable, Fresh, w
  <2>8. TypeOK'
    BY <1>1, <2>1, <2>7 DEF TypeOK
  <2>9. QED
    BY <2>7, <2>8
<1>5. QED
  BY <1>1, <1>3, <1>4 DEF compileVars

-----------------------------------------------------------------------------
(* The exchange *)

LEMMA ImportedType ==
  ASSUME TypeOK
  PROVE  Imported \subseteq Files
BY DEF TypeOK, Imported, Exported, Files

LEMMA VisitsOf ==
  ASSUME ExchangeTypeOK, NEW v \in visits
  PROVE  /\ v \in Visits /\ v.of \in Imports
         /\ files[v.of] \in Files \cup {NoFile} /\ drafts[v.of] \in Nat
BY DEF ExchangeTypeOK, Visits

LEMMA ReadSteps ==
  ASSUME TypeOK, ExchangeTypeOK, EditsAreChained, Exchange,
         NEW k \in Imports, NEW file \in Imported, ReadForImport(k, file)
  PROVE  TypeOK' /\ ExchangeTypeOK' /\ EditsAreChained' /\ Exchange' /\ UNCHANGED compileVars
<1>1. /\ UNCHANGED <<jobs, runs, attempts, anchored, answers, claims, conflicts, page, edits, drafts, imported>>
      /\ files[k] \in {NoFile, file} /\ Room
      /\ files' = [files EXCEPT ![k] = file]
      /\ visits' = visits \cup {Judged(k, file)}
      /\ edited' = edited + 1
  BY DEF ReadForImport, compileVars
<1>2. page \in Seq(Versions) /\ Len(page) \in Nat /\ DOMAIN page = 1..Len(page) /\ edited \in 0..MaxWork
  BY DEF TypeOK
<1>3. file \in Files /\ file # NoFile
  BY <1>2, ImportedType, NoFileAssumption
<1>4. file.kind = "genuine" => file.base \in DOMAIN page /\ file.text \in Texts
  BY DEF Imported, Exported
<1>5. TypeOK'
  <2>1. edited' \in 0..MaxWork
    <3>1. Len(attempts) \in Nat
      BY DEF TypeOK
    <3>2. QED
      BY <1>1, <1>2, <3>1, BoundAssumption DEF Room
  <2>2. QED
    BY <1>1, <2>1 DEF TypeOK, Content
<1> DEFINE n == Judged(k, file)
<1>6. /\ n \in Visits /\ n.of = k /\ n.row.draft = 0
      /\ n.at = "edit" => n.read = Len(page) /\ file.base = Len(page) /\ file.kind = "genuine"
  <2>1. file.kind \in {"plain", "genuine", "foreign"}
    BY <1>3 DEF Files
  <2>2. QED
    BY <1>2, <2>1 DEF Judged, Drifted, Visits, Rows
<1> HIDE DEF n
<1>7. files' \in [Imports -> Files \cup {NoFile}] /\ visits' \subseteq Visits
  BY <1>1, <1>3, <1>6 DEF ExchangeTypeOK, n
<1>8. ExchangeTypeOK'
  BY <1>1, <1>7 DEF ExchangeTypeOK
<1>9. /\ files'[k] = file
      /\ \A i \in Imports : files[i] # NoFile => files'[i] = files[i]
  BY <1>1 DEF ExchangeTypeOK
<1>10. Drafted'
  BY <1>1, <1>9 DEF Drafted, Exchange
<1>11. Visiting'
  <2>1. ASSUME NEW v \in visits
        PROVE  /\ files'[v.of] # NoFile
               /\ v.row.draft \in {0, drafts[v.of]}
               /\ v.at = "edit" => /\ files'[v.of].base = v.read
                                   /\ v.read \in DOMAIN page
                                   /\ files'[v.of].text \in Texts
    BY <1>9, VisitsOf DEF Visiting, Exchange
  <2>2. /\ files'[n.of] # NoFile
        /\ n.row.draft \in {0, drafts[n.of]}
        /\ n.at = "edit" => /\ files'[n.of].base = n.read
                            /\ n.read \in DOMAIN page
                            /\ files'[n.of].text \in Texts
    BY <1>3, <1>4, <1>6, <1>9
  <2>3. visits' = visits \cup {n}
    BY <1>1 DEF n
  <2>4. QED
    BY <1>1, <2>1, <2>2, <2>3 DEF Visiting
<1>12. EditsAreChained' /\ Readings' /\ Recorded'
  BY <1>1 DEF EditsAreChained, Readings, Recorded, Exchange
<1>13. Arrivals' = Arrivals /\ Drafters' = Drafters
  BY <1>1 DEF Arrivals, Drafters
<1>14. Sourced'
  BY <1>1, <1>13 DEF Sourced, Exchange
<1>15. QED
  BY <1>1, <1>5, <1>8, <1>10, <1>11, <1>12, <1>14 DEF Exchange, compileVars

\* What a visit becomes when the page has its draft
LEMMA ComesFacts ==
  ASSUME ExchangeTypeOK, NEW v \in visits, NEW d \in Nat, Comes(v, d)
  PROVE  \E n \in Visits : /\ visits' = (visits \ {v}) \cup {n}
                           /\ n.of = v.of /\ n.at = "record" /\ n.row.draft = d
<1>1. PICK n : n = [v EXCEPT !.at = "record", !.row = [status |-> "DRAFT_CREATED", draft |-> d]]
  OBVIOUS
<1>2. n \in Visits /\ n.of = v.of /\ n.at = "record" /\ n.row.draft = d
  BY <1>1, VisitsOf DEF Visits, Rows
<1>3. visits' = (visits \ {v}) \cup {n}
  BY <1>1 DEF Comes
<1>4. QED
  BY <1>2, <1>3

\* An import finds its draft ...
LEMMA EditFinds ==
  ASSUME TypeOK, ExchangeTypeOK, EditsAreChained, Exchange,
         NEW v \in visits, EditImport(v), drafts[v.of] # 0
  PROVE  TypeOK' /\ ExchangeTypeOK' /\ EditsAreChained' /\ Exchange' /\ UNCHANGED <<compileVars, page>>
<1>1. UNCHANGED <<jobs, runs, attempts, anchored, answers, claims, conflicts, page, edits, edited,
                  files, drafts, imported>>
  BY DEF EditImport, compileVars, editVars
<1>2. v \in Visits /\ v.of \in Imports /\ drafts[v.of] \in Nat
  BY VisitsOf
<1>3. Comes(v, drafts[v.of])
  BY DEF EditImport
<1>4. PICK n \in Visits : /\ visits' = (visits \ {v}) \cup {n}
                         /\ n.of = v.of /\ n.at = "record" /\ n.row.draft = drafts[v.of]
  BY <1>2, <1>3, ComesFacts
<1>5. TypeOK' /\ ExchangeTypeOK'
  BY <1>1, <1>4 DEF TypeOK, ExchangeTypeOK, Content
<1>6. Visiting'
  BY <1>1, <1>4 DEF Visiting, Exchange
<1>7. EditsAreChained' /\ Readings' /\ Recorded' /\ Drafted'
  BY <1>1 DEF EditsAreChained, Readings, Recorded, Drafted, Exchange
<1>8. Arrivals' = Arrivals /\ Drafters' = Drafters
  BY <1>1 DEF Arrivals, Drafters
<1>9. Sourced'
  BY <1>1, <1>8 DEF Sourced, Exchange
<1>10. QED
  BY <1>1, <1>5, <1>6, <1>7, <1>9 DEF Exchange, compileVars

\* ... or writes it.
LEMMA EditWrites ==
  ASSUME TypeOK, ExchangeTypeOK, EditsAreChained, Exchange,
         NEW v \in visits, EditImport(v), drafts[v.of] = 0
  PROVE  /\ TypeOK' /\ ExchangeTypeOK' /\ EditsAreChained' /\ Exchange' /\ UNCHANGED compileVars
         /\ \E w : page' = Append(page, w) /\ w.by = "edit"
<1> DEFINE k == v.of
           f == files[k]
           e == [read |-> v.read, text |-> f.text]
           w == Edited(e, f.base)
<1>1. /\ v \in Visits /\ k \in Imports /\ f # NoFile /\ f \in Files
      /\ v.at = "edit" /\ f.base = v.read /\ v.read \in DOMAIN page /\ f.text \in Texts
  BY VisitsOf DEF Visiting, Exchange, EditImport
<1>2. /\ UNCHANGED <<jobs, runs, attempts, anchored, answers, claims, conflicts, edits, edited, files, imported>>
      /\ v.read = Len(page) /\ ~ Known(page, w)
      /\ page' = Append(page, w)
      /\ drafts' = [drafts EXCEPT ![k] = Len(page')]
      /\ Comes(v, Len(page'))
  BY DEF EditImport, Editable, Fresh, compileVars, editVars
<1>3. page \in Seq(Versions) /\ Len(page) \in Nat /\ DOMAIN page = 1..Len(page)
  BY DEF TypeOK
<1>4. Last(page) = page[Len(page)] /\ page[Len(page)] \in Versions
  BY <1>1, <1>2, <1>3 DEF Last
<1>5. /\ w \in Versions /\ w.by = "edit"
      /\ w.read = Len(page) /\ w.base = f.base /\ w.protected = f.text
  BY <1>1, <1>2, <1>3, <1>4 DEF Edited, Versions
<1> HIDE DEF w
<1>6. /\ page' \in Seq(Versions)
      /\ \A i, l \in DOMAIN page' : Content(page'[i]) = Content(page'[l]) => i = l
      /\ DOMAIN page' = 1..(Len(page) + 1)
      /\ \A i \in 1..Len(page) : page'[i] = page[i]
      /\ page'[Len(page) + 1] = w
  BY <1>2, <1>5, Written
<1>7. Len(page') = Len(page) + 1 /\ \A i \in DOMAIN page' : i \in 1..Len(page) \/ i = Len(page) + 1
  BY <1>2, <1>3, <1>6
<1>8. PICK n \in Visits : /\ visits' = (visits \ {v}) \cup {n}
                         /\ n.of = k /\ n.at = "record" /\ n.row.draft = Len(page) + 1
  BY <1>2, <1>3, <1>7, ComesFacts
<1>9. /\ drafts \in [Imports -> Nat] /\ drafts' \in [Imports -> Nat] /\ drafts'[k] = Len(page) + 1
      /\ \A i \in Imports : i # k => drafts'[i] = drafts[i]
  BY <1>1, <1>2, <1>3, <1>7 DEF ExchangeTypeOK
<1>10. TypeOK'
  BY <1>2, <1>6 DEF TypeOK
<1>11. ExchangeTypeOK'
  BY <1>2, <1>8, <1>9 DEF ExchangeTypeOK
<1>12. EditsAreChained'
  BY <1>3, <1>5, <1>6, <1>7 DEF EditsAreChained
<1>13. Readings'
  BY <1>2, <1>3, <1>6 DEF Readings, Exchange
<1>14. Drafted'
  <2>1. ASSUME NEW i \in Imports, drafts'[i] # 0
        PROVE  /\ files'[i] # NoFile /\ drafts'[i] \in DOMAIN page' /\ drafts'[i] = files'[i].base + 1
               /\ page'[drafts'[i]].protected = files'[i].text
    <3>1. CASE i = k
      BY <1>1, <1>2, <1>3, <1>5, <1>6, <1>9, <3>1
    <3>2. CASE i # k
      BY <1>2, <1>3, <1>6, <1>9, <2>1, <3>2 DEF Drafted, Exchange
    <3>3. QED
      BY <3>1, <3>2
  <2>2. QED
    BY <2>1 DEF Drafted
<1>15. Visiting'
  <2>1. ASSUME NEW u \in visits
        PROVE  /\ files'[u.of] # NoFile
               /\ u.row.draft \in {0, drafts'[u.of]}
               /\ u.at = "edit" => /\ files'[u.of].base = u.read
                                   /\ u.read \in DOMAIN page'
                                   /\ files'[u.of].text \in Texts
    <3>1. u.of \in Imports /\ (u.of # k => drafts'[u.of] = drafts[u.of])
      BY <1>9, VisitsOf
    <3>2. QED
      BY <1>2, <1>3, <1>6, <3>1 DEF Visiting, Exchange
  <2>2. /\ files'[n.of] # NoFile
        /\ n.row.draft \in {0, drafts'[n.of]}
        /\ n.at # "edit"
    BY <1>1, <1>2, <1>8, <1>9
  <2>3. QED
    BY <1>8, <2>1, <2>2 DEF Visiting
<1>16. Recorded'
  BY <1>2, <1>9 DEF Recorded, Exchange
<1>17. Sourced'
  <2>1. Drafters' = Drafters \cup {k}
    BY <1>1, <1>3, <1>9 DEF Drafters
  <2>2. IsFiniteSet(Drafters')
    BY <2>1, FS_AddElement DEF Sourced, Exchange
  <2>3. ASSUME NEW r \in Arrivals' PROVE \E i \in Imports : drafts'[i] = r
    <3>1. /\ r \in DOMAIN page' /\ page'[r].by = "edit" /\ page'[r].base # 0
          /\ r = 1 \/ page'[r - 1].base # page'[r].base
      BY DEF Arrivals
    <3>2. CASE r = Len(page) + 1
      BY <1>1, <1>9, <3>2
    <3>3. CASE r \in 1..Len(page)
      <4>1. page'[r] = page[r] /\ (r # 1 => r - 1 \in 1..Len(page))
        BY <1>3, <1>6, <3>3
      <4>2. r # 1 => page'[r - 1] = page[r - 1]
        BY <1>6, <4>1
      <4>3. r \in Arrivals
        BY <1>3, <3>1, <3>3, <4>1, <4>2 DEF Arrivals
      <4>4. PICK i \in Imports : drafts[i] = r
        BY <4>3 DEF Sourced, Exchange
      <4>5. i # k
        BY <1>1, <3>3, <4>4
      <4>6. QED
        BY <1>9, <4>4, <4>5
    <3>4. QED
      BY <1>7, <3>1, <3>2, <3>3
  <2>4. QED
    BY <2>2, <2>3 DEF Sourced
<1>18. QED
  BY <1>2, <1>5, <1>10, <1>11, <1>12, <1>13, <1>14, <1>15, <1>16, <1>17 DEF Exchange, compileVars

\* The outcome is recorded, or the visit is lost.
LEMMA RecordSteps ==
  ASSUME TypeOK, ExchangeTypeOK, EditsAreChained, Exchange,
         NEW v \in visits, RecordImport(v) \/ LoseImport(v)
  PROVE  TypeOK' /\ ExchangeTypeOK' /\ EditsAreChained' /\ Exchange' /\ UNCHANGED vars
<1>1. /\ UNCHANGED <<jobs, runs, attempts, anchored, answers, claims, conflicts, page, edits, edited, files, drafts>>
      /\ visits' \subseteq visits
  BY DEF RecordImport, LoseImport, vars, compileVars, editVars
<1>2. v.of \in Imports /\ v.row \in Rows /\ v.row.draft \in {0, drafts[v.of]}
  BY VisitsOf DEF Visits, Visiting, Exchange
<1>3. \/ imported' = imported
      \/ imported' = [imported EXCEPT ![v.of] = v.row]
  BY DEF RecordImport, LoseImport
<1>4. imported' \in [Imports -> Rows] /\ Recorded'
  BY <1>1, <1>2, <1>3 DEF ExchangeTypeOK, Recorded, Exchange
<1>5. TypeOK' /\ ExchangeTypeOK'
  BY <1>1, <1>4 DEF TypeOK, ExchangeTypeOK, Content
<1>6. EditsAreChained' /\ Readings' /\ Drafted' /\ Visiting'
  BY <1>1 DEF EditsAreChained, Readings, Drafted, Visiting, Exchange
<1>7. Arrivals' = Arrivals /\ Drafters' = Drafters
  BY <1>1 DEF Arrivals, Drafters
<1>8. Sourced'
  BY <1>1, <1>7 DEF Sourced, Exchange
<1>9. QED
  BY <1>1, <1>4, <1>5, <1>6, <1>8 DEF Exchange, vars, compileVars, editVars

-----------------------------------------------------------------------------
LEMMA InitIInv ==
  ASSUME ExchangeInit
  PROVE  IInv
<1>1. TypeOK /\ ExchangeTypeOK
  BY BoundAssumption DEF ExchangeInit, Init, TypeOK, ExchangeTypeOK, Statuses, NoRow, Rows
<1>2. Answered /\ EditsAreChained /\ DisagreementIsRaised
  BY DEF ExchangeInit, Init, Answered, EditsAreChained, DisagreementIsRaised
<1>3. Readings /\ Drafted /\ Visiting /\ Recorded
  BY DEF ExchangeInit, Init, Readings, Drafted, Visiting, Recorded, NoRow
<1>4. Arrivals = {} /\ Drafters = {}
  BY DEF ExchangeInit, Init, Arrivals, Drafters
<1>5. Sourced
  BY <1>4, FS_EmptySet DEF Sourced
<1>6. QED
  BY <1>1, <1>2, <1>3, <1>5 DEF IInv

LEMMA StepIInv ==
  ASSUME IInv, [AllNext]_allVars
  PROVE  IInv'
<1>1. /\ TypeOK /\ ExchangeTypeOK
      /\ Answered /\ EditsAreChained /\ DisagreementIsRaised /\ Exchange
  BY DEF IInv, Exchange
<1>2. UNCHANGED exchangeVars => (ExchangeTypeOK' <=> ExchangeTypeOK)
  BY DEF exchangeVars, ExchangeTypeOK
<1>3. UNCHANGED <<jobs, answers>> => (Answered' <=> Answered)
  BY DEF Answered
<1>4. UNCHANGED <<claims, conflicts>> => (DisagreementIsRaised' <=> DisagreementIsRaised)
  BY DEF DisagreementIsRaised
<1>5. UNCHANGED <<page, edits>> /\ UNCHANGED exchangeVars => EditsAreChained' /\ Exchange'
  BY <1>1, PageStands
<1>6. SUFFICES TypeOK' /\ ExchangeTypeOK' /\ Answered' /\ EditsAreChained' /\ DisagreementIsRaised' /\ Exchange'
  BY DEF IInv, Exchange
<1>7. ASSUME UNCHANGED exchangeVars, NEW j \in Jobs,
             \/ CreateCompileJob(j) \/ StartRun(j) \/ MarkCompileStarted(j)
             \/ Schedule(j) \/ GiveUp(j) \/ FailCompile(j)
      PROVE  TypeOK' /\ ExchangeTypeOK' /\ Answered' /\ EditsAreChained' /\ DisagreementIsRaised' /\ Exchange'
  <2>1. TypeOK' /\ Answered' /\ Still
    BY <1>1, <1>7, RouteSteps
  <2>2. QED
    BY <1>1, <1>2, <1>4, <1>5, <1>7, <2>1 DEF Still, editVars
<1>8. ASSUME UNCHANGED exchangeVars, NEW j \in Jobs, InvalidateSource(j)
      PROVE  TypeOK' /\ ExchangeTypeOK' /\ Answered' /\ EditsAreChained' /\ DisagreementIsRaised' /\ Exchange'
  <2>1. TypeOK' /\ Answered' /\ UNCHANGED <<answers, claims, conflicts, page, editVars>>
    BY <1>1, <1>8, SourceSteps
  <2>2. QED
    BY <1>1, <1>2, <1>4, <1>5, <1>8, <2>1 DEF editVars
<1>9. ASSUME UNCHANGED exchangeVars, NEW a \in DOMAIN attempts, AlreadyDone(a) \/ StartCompile(a) \/ AttemptFails(a)
      PROVE  TypeOK' /\ ExchangeTypeOK' /\ Answered' /\ EditsAreChained' /\ DisagreementIsRaised' /\ Exchange'
  <2>1. TypeOK' /\ Answered' /\ Still
    BY <1>1, <1>9, AttemptSteps
  <2>2. QED
    BY <1>1, <1>2, <1>4, <1>5, <1>9, <2>1 DEF Still, editVars
<1>10. ASSUME UNCHANGED exchangeVars, NEW a \in DOMAIN attempts, NEW answer \in Answers, PersistCompile(a, answer)
       PROVE  TypeOK' /\ ExchangeTypeOK' /\ Answered' /\ EditsAreChained' /\ DisagreementIsRaised' /\ Exchange'
  BY <1>1, <1>2, <1>10, PersistSteps
<1>11. ASSUME UNCHANGED exchangeVars, (\E text \in Texts : ReadPage(text)) \/ (\E e \in edits : EditPage(e))
       PROVE  TypeOK' /\ ExchangeTypeOK' /\ Answered' /\ EditsAreChained' /\ DisagreementIsRaised' /\ Exchange'
  <2>1. TypeOK' /\ EditsAreChained' /\ Exchange' /\ UNCHANGED compileVars
    BY <1>1, <1>11, EditorSteps
  <2>2. QED
    BY <1>1, <1>2, <1>3, <1>4, <1>11, <2>1 DEF compileVars
<1>12. ASSUME NEW k \in Imports, NEW file \in Imported, ReadForImport(k, file)
       PROVE  TypeOK' /\ ExchangeTypeOK' /\ Answered' /\ EditsAreChained' /\ DisagreementIsRaised' /\ Exchange'
  <2>1. TypeOK' /\ ExchangeTypeOK' /\ EditsAreChained' /\ Exchange' /\ UNCHANGED compileVars
    BY <1>1, <1>12, ReadSteps
  <2>2. QED
    BY <1>1, <1>3, <1>4, <2>1 DEF compileVars
<1>13. ASSUME NEW v \in visits, EditImport(v)
       PROVE  TypeOK' /\ ExchangeTypeOK' /\ Answered' /\ EditsAreChained' /\ DisagreementIsRaised' /\ Exchange'
  <2>1. TypeOK' /\ ExchangeTypeOK' /\ EditsAreChained' /\ Exchange' /\ UNCHANGED compileVars
    BY <1>1, <1>13, EditFinds, EditWrites
  <2>2. QED
    BY <1>1, <1>3, <1>4, <2>1 DEF compileVars
<1>14. ASSUME NEW v \in visits, RecordImport(v) \/ LoseImport(v)
       PROVE  TypeOK' /\ ExchangeTypeOK' /\ Answered' /\ EditsAreChained' /\ DisagreementIsRaised' /\ Exchange'
  <2>1. TypeOK' /\ ExchangeTypeOK' /\ EditsAreChained' /\ Exchange' /\ UNCHANGED vars
    BY <1>1, <1>14, RecordSteps
  <2>2. QED
    BY <1>1, <1>3, <1>4, <2>1 DEF vars, compileVars
<1>15. CASE UNCHANGED allVars
  <2>1. /\ UNCHANGED <<jobs, runs, attempts, anchored, answers, claims, conflicts, page, edits, edited>>
        /\ UNCHANGED exchangeVars
    BY <1>15 DEF allVars, vars, compileVars, editVars
  <2>2. TypeOK'
    BY <1>1, <2>1 DEF TypeOK, Content
  <2>3. QED
    BY <1>1, <1>2, <1>3, <1>4, <1>5, <2>1, <2>2
<1>16. CASE ExchangeNext
  BY <1>12, <1>13, <1>14, <1>16 DEF ExchangeNext
<1>17. CASE Next /\ UNCHANGED exchangeVars
  BY <1>7, <1>8, <1>9, <1>10, <1>11, <1>17 DEF Next
<1>18. QED
  BY <1>15, <1>16, <1>17 DEF AllNext

THEOREM Invariance == ExchangeSpec => []IInv
BY InitIInv, StepIInv, PTL DEF ExchangeSpec

-----------------------------------------------------------------------------
(* What follows *)

\* The answers of a job are none or one.
LEMMA OnceFollows ==
  ASSUME TypeOK, Answered
  PROVE  CompiledOnce
<1>1. ASSUME NEW j \in Jobs
      PROVE  LET times == Cardinality({k \in DOMAIN answers : answers[k] = j})
             IN times <= 1 /\ (jobs[j] = "SUCCEEDED" => times = 1)
  <2> DEFINE Of == {k \in DOMAIN answers : answers[k] = j}
  <2>1. CASE \E k : k \in Of
    <3>1. PICK k : k \in Of
      BY <2>1
    <3>2. Of = {k}
      BY <3>1 DEF Answered
    <3> HIDE DEF Of
    <3>3. Cardinality(Of) = 1
      BY <3>2, FS_Singleton
    <3>4. QED
      BY <3>3 DEF Of
  <2>2. CASE ~ \E k : k \in Of
    <3>1. Of = {} /\ jobs[j] # "SUCCEEDED"
      BY <2>2 DEF Answered
    <3> HIDE DEF Of
    <3>2. Cardinality(Of) = 0
      BY <3>1, FS_EmptySet
    <3>3. QED
      BY <3>1, <3>2 DEF Of
  <2>3. QED
    BY <2>1, <2>2
<1>2. QED
  BY <1>1 DEF CompiledOnce

\* Each version that only an import can have written is the draft of a request of its own.
LEMMA ArrivalsFollow ==
  ASSUME TypeOK, ExchangeTypeOK, Sourced
  PROVE  Cardinality(Arrivals) <= Cardinality(Drafters)
<1>1. IsFiniteSet(Arrivals)
  <2>1. Len(page) \in Nat /\ DOMAIN page = 1..Len(page)
    BY DEF TypeOK
  <2>2. IsFiniteSet(1..Len(page))
    BY <2>1, FS_Interval
  <2>3. Arrivals \subseteq 1..Len(page)
    BY <2>1 DEF Arrivals
  <2>4. QED
    BY <2>2, <2>3, FS_Subset
<1>2. \A r \in Arrivals : \E k \in Drafters : drafts[k] = r
  <2>1. \A r \in Arrivals : r # 0
    BY DEF Arrivals, TypeOK
  <2>2. QED
    BY <2>1 DEF Sourced, Drafters
<1> DEFINE by == [r \in Arrivals |-> CHOOSE k \in Drafters : drafts[k] = r]
<1>3. \A r \in Arrivals : by[r] \in Drafters /\ drafts[by[r]] = r
  BY <1>2
<1>4. by \in [Arrivals -> Drafters] /\ \A r, q \in Arrivals : by[r] = by[q] => r = q
  BY <1>3
<1> HIDE DEF by
<1>5. by \in Injection(Arrivals, Drafters)
  BY <1>4 DEF Injection, IsInjective
<1>6. IsFiniteSet(Drafters)
  BY DEF Sourced
<1>7. QED
  BY <1>5, <1>6, FS_Injection

LEMMA ImportFollows ==
  ASSUME IInv
  PROVE  ImportIsTrue
<1>1. ASSUME NEW k \in Imports, imported[k].draft # 0
      PROVE  /\ imported[k].draft = files[k].base + 1
             /\ page[imported[k].draft].protected = files[k].text
  BY <1>1 DEF IInv, Recorded, Drafted
<1>2. \A k \in Imports : imported[k].draft \in {0, drafts[k]}
  BY DEF IInv, Recorded
<1>3. Cardinality(Arrivals) <= Cardinality(Drafters)
  BY ArrivalsFollow DEF IInv
<1>4. QED
  BY <1>1, <1>2, <1>3 DEF ImportIsTrue, Arrivals, Drafters

\* execute_compile, edit_wiki_page, import_obsidian_markdown: for any jobs, answers and
\* requests, however they interleave, the answer to a job is persisted once, edits are made on
\* the version they follow, and an import speaks of the draft that has its file's text.
THEOREM RowsFit == ExchangeSpec => []ExchangeRowsFit
<1>1. IInv => ExchangeRowsFit
  BY OnceFollows, ImportFollows DEF IInv, ExchangeRowsFit, CompileRowsFit
<1>2. QED
  BY <1>1, Invariance, PTL

\* _persist_compile_output: a claim that contradicts an earlier one is set against one that it
\* contradicts, whatever the model answers and in whatever order the answers are persisted.
THEOREM Disagreement == ExchangeSpec => []DisagreementIsRaised
<1>1. IInv => DisagreementIsRaised
  BY DEF IInv
<1>2. QED
  BY <1>1, Invariance, PTL
=============================================================================
