------------------------- MODULE CollectorsProofs -------------------------
(***************************************************************************)
(* Proofs about Collectors: for any account, any number of changes to it    *)
(* and any collector of the four adapters, a collection that is complete    *)
(* has listed what was there all the time, and one that was given up was    *)
(* given up for something that was deleted; and at any time what is known   *)
(* of a thing is related to the past of the account.                       *)
(***************************************************************************)
EXTENDS Collectors, SequenceTheorems, TLAPS
-----------------------------------------------------------------------------
Elements(q) == {q[i] : i \in DOMAIN q}

\* The calls of a collector about everything, and about one thing.
SweepCalls == Elements(Program.before) \cup Elements(Program.after)
EachCalls  == Elements(Program.each)

\* The steps that may be left, in the state they are left in: everything up
\* to a cursor that was there all the time is listed, and only what is
\* listed is asked about.
Sweepings == [step : {"sweep"}, call : SweepCalls]
Askings   == [step : {"ask"}, things : SUBSET listed, calls : Seq(EachCalls) \ {<<>>}]
Listings  ==
  {s \in [step : {"list"}, cursor : Nat] :
     \A t \in Things : t <= s.cursor /\ Throughout(t) => t \in listed}

StepSet == Sweepings \cup Listings \cup Askings

NoList(steps) == \A i \in 1..Len(steps) : steps[i].step # "list"

\* The account is one of its past ones, and has none but the possible things.
Accountable ==
  /\ subject \in Subjects
  /\ world \in past
  /\ listed \subseteq Things
  /\ \A w \in past : DOMAIN w \subseteq Things \cup {0}

\* A collection that runs has a step left, and one that does not has none.
Left ==
  /\ todo \in Seq(StepSet)
  /\ Running <=> todo # <<>>

\* When nothing is left to be listed, everything is listed.
ListedAll ==
  Program.lists /\ outcome # "missing" /\ NoList(todo) =>
    \A t \in Things : Throughout(t) => t \in listed

IInv == Accountable /\ Left /\ ListedAll /\ FailureHasCause
-----------------------------------------------------------------------------
(***************************************************************************)
(* The programs of the collectors.                                         *)
(***************************************************************************)
IsSequence(q) == q \in Seq(Elements(q))

\* Programs are made of sequences, and begin with something.
Shaped(p) ==
  /\ IsSequence(p.before) /\ IsSequence(p.each) /\ IsSequence(p.after)
  /\ p.lists \/ p.before # <<>>

LEMMA Tuples ==
  /\ IsSequence(<<>>)
  /\ \A a : IsSequence(<<a>>)
  /\ \A a, b : IsSequence(<<a, b>>)
  /\ \A a, b, c : IsSequence(<<a, b, c>>)
  /\ \A a, b, c, d, e, f, g : IsSequence(<<a, b, c, d, e, f, g>>)
  BY DEF IsSequence, Elements

LEMMA ListerShape ==
  ASSUME NEW provider, NEW aspects, NEW calls, IsSequence(calls)
  PROVE  /\ Shaped(Lister(provider, aspects))
         /\ Shaped([Lister(provider, aspects) EXCEPT !.before = calls])
         /\ Shaped([Lister(provider, aspects) EXCEPT !.each = calls])
         /\ Shaped([Lister(provider, aspects) EXCEPT !.after = calls])
  BY Tuples DEF Shaped, Lister

LEMMA AwsShape == \A k \in AwsNames : Shaped(AwsProgram(k))
<1>1. Shaped(S3Buckets)
  BY Tuples, ListerShape DEF S3Buckets
<1>2. Shaped(S3Account)
  BY Tuples, ListerShape DEF S3Account, Reader, Shaped, Lister
<1>3. Shaped(SecurityGroups)
  BY Tuples, ListerShape DEF SecurityGroups
<1>4. Shaped(IamPrincipals)
  BY Tuples, ListerShape DEF IamPrincipals, Shaped, Lister
<1>5. Shaped(CloudTrail)
  BY Tuples, ListerShape DEF CloudTrail, Shaped, Lister
<1>6. Shaped(KmsKeys)
  BY Tuples, ListerShape DEF KmsKeys
<1>7. QED
  BY <1>1, <1>2, <1>3, <1>4, <1>5, <1>6 DEF AwsNames, AwsProgram

LEMMA AzureShape == \A k \in AzureNames : Shaped(AzureProgram(k))
<1>1. Shaped(Inventory)
  BY Tuples, ListerShape DEF Inventory
<1>2. Shaped(StorageAccounts)
  BY Tuples, ListerShape DEF StorageAccounts
<1>3. Shaped(StorageContainers)
  BY Tuples, ListerShape DEF StorageContainers, StorageAccounts
<1>4. Shaped(NetworkSecurityGroups)
  BY Tuples, ListerShape DEF NetworkSecurityGroups
<1>5. Shaped(RoleAssignments)
  BY Tuples, ListerShape DEF RoleAssignments
<1>6. Shaped(DiagnosticSettings)
  BY Tuples, ListerShape DEF DiagnosticSettings
<1>7. Shaped(KeyVaults)
  BY Tuples, ListerShape DEF KeyVaults
<1>8. QED
  BY <1>1, <1>2, <1>3, <1>4, <1>5, <1>6, <1>7 DEF AzureNames, AzureProgram

LEMMA GcpShape == \A k \in GcpNames : Shaped(GcpProgram(k))
<1>1. Shaped(GcpInventory)
  BY Tuples, ListerShape DEF GcpInventory
<1>2. Shaped(StorageBuckets)
  BY Tuples, ListerShape DEF StorageBuckets
<1>3. Shaped(ComputeFirewalls)
  BY Tuples, ListerShape DEF ComputeFirewalls
<1>4. Shaped(ProjectIamPolicy)
  BY Tuples, ListerShape DEF ProjectIamPolicy, Shaped, Lister
<1>5. Shaped(AuditConfig)
  BY Tuples, ListerShape DEF AuditConfig, Reader, Shaped, Lister
<1>6. Shaped(GcpKmsKeys)
  BY Tuples, ListerShape DEF GcpKmsKeys
<1>7. QED
  BY <1>1, <1>2, <1>3, <1>4, <1>5, <1>6 DEF GcpNames, GcpProgram

LEMMA IbmShape == \A k \in IbmNames : Shaped(IbmProgram(k))
<1>1. Shaped(IbmInventory)
  BY Tuples, ListerShape DEF IbmInventory
<1>2. Shaped(CosBuckets)
  BY Tuples, ListerShape DEF CosBuckets, Shaped, Lister
<1>3. Shaped(IbmSecurityGroups)
  BY Tuples, ListerShape DEF IbmSecurityGroups
<1>4. Shaped(NetworkAcls)
  BY Tuples, ListerShape DEF NetworkAcls
<1>5. Shaped(IamPolicies)
  BY Tuples, ListerShape DEF IamPolicies
<1>6. Shaped(IamIdentity)
  BY Tuples, ListerShape DEF IamIdentity
<1>7. Shaped(IamUsers)
  BY Tuples, ListerShape DEF IamUsers, Shaped, Lister
<1>8. QED
  BY <1>1, <1>2, <1>3, <1>4, <1>5, <1>6, <1>7 DEF IbmNames, IbmProgram

LEMMA ProgramShape == subject \in Subjects => Shaped(Program)
  BY AwsShape, AzureShape, GcpShape, IbmShape, SubjectsAssumption DEF Program, collector

\* A setting that was never made is expected by every call that asks for it.
LEMMA NeverMade ==
  ASSUME NEW c \in EachCalls, NEW config, subject \in Subjects,
         NoSuch(c.operation, config)
  PROVE  Tolerates(c.operation, TRUE)
<1>1. CASE collector = "ibm.cos.buckets"
  <2>1. Program.each = CosBuckets.each
    BY <1>1 DEF Program, AwsNames, AzureNames, GcpNames, IbmNames, IbmProgram
  <2>2. c.operation \in {"get_bucket_acl", "get_bucket_policy", "get_bucket_policy_status"}
    BY <2>1 DEF EachCalls, Elements, CosBuckets, Lister, Call
  <2>3. QED
    BY <1>1, <2>2 DEF NoSuch, Tolerates
<1>2. CASE collector # "ibm.cos.buckets"
  BY <1>2 DEF NoSuch, Tolerates
<1>3. QED
  BY <1>1, <1>2
-----------------------------------------------------------------------------
(***************************************************************************)
(* The steps that are left.                                                *)
(***************************************************************************)
LEMMA Joined ==
  ASSUME NEW S, NEW p \in Seq(S), NEW q \in Seq(S)
  PROVE  /\ p \o q \in Seq(S)
         /\ NoList(p \o q) <=> NoList(p) /\ NoList(q)
<1>1. /\ p \o q \in Seq(S) /\ Len(p \o q) = Len(p) + Len(q)
      /\ \A i \in 1..Len(p) + Len(q) :
           (p \o q)[i] = IF i <= Len(p) THEN p[i] ELSE q[i - Len(p)]
      /\ Len(p) \in Nat /\ Len(q) \in Nat
  BY ConcatProperties, LenProperties
<1>2. ASSUME NoList(p \o q) PROVE NoList(p)
  BY <1>1, <1>2 DEF NoList
<1>3. ASSUME NoList(p \o q) PROVE NoList(q)
  <2>1. SUFFICES ASSUME NEW i \in 1..Len(q) PROVE q[i].step # "list"
    BY DEF NoList
  <2>2. i + Len(p) \in 1..Len(p) + Len(q) /\ (p \o q)[i + Len(p)] = q[i]
    BY <1>1
  <2>3. QED
    BY <1>1, <1>3, <2>2 DEF NoList
<1>4. ASSUME NoList(p), NoList(q) PROVE NoList(p \o q)
  BY <1>1, <1>4 DEF NoList
<1>5. QED
  BY <1>1, <1>2, <1>3, <1>4

LEMMA Headed ==
  ASSUME NEW S, NEW q \in Seq(S), q # <<>>
  PROVE  /\ Head(q) \in S /\ Tail(q) \in Seq(S)
         /\ NoList(q) <=> Head(q).step # "list" /\ NoList(Tail(q))
<1>1. /\ Head(q) \in S /\ Tail(q) \in Seq(S) /\ Head(q) = q[1]
      /\ Len(q) \in Nat \ {0} /\ Len(Tail(q)) = Len(q) - 1
      /\ \A i \in 1..Len(q) - 1 : Tail(q)[i] = q[i + 1]
  BY HeadTailProperties, LenProperties, EmptySeq
<1>2. ASSUME NoList(q) PROVE Head(q).step # "list" /\ NoList(Tail(q))
  BY <1>1, <1>2 DEF NoList
<1>3. ASSUME Head(q).step # "list", NoList(Tail(q)) PROVE NoList(q)
  <2>1. SUFFICES ASSUME NEW i \in 1..Len(q) PROVE q[i].step # "list"
    BY DEF NoList
  <2>2. CASE i = 1
    BY <1>1, <1>3, <2>2
  <2>3. CASE i # 1
    <3>1. i - 1 \in 1..Len(q) - 1 /\ (i - 1) + 1 = i
      BY <1>1, <2>3
    <3>2. QED
      BY <1>1, <1>3, <3>1 DEF NoList
  <2>4. QED
    BY <2>2, <2>3
<1>4. QED
  BY <1>1, <1>2, <1>3

\* What may be left may still be left when more is listed and the account
\* has more of a past.
LEMMA StepsStay ==
  ASSUME subject' = subject, past \subseteq past', listed \subseteq listed'
  PROVE  /\ StepSet \subseteq StepSet'
         /\ Seq(StepSet) \subseteq Seq(StepSet')
         /\ \A t : Throughout(t)' => Throughout(t)
         /\ Program' = Program
<1>1. Program' = Program
  BY DEF Program, collector
<1>2. \A t : Throughout(t)' => Throughout(t)
  BY DEF Throughout
<1>3. Sweepings' = Sweepings
  BY <1>1 DEF Sweepings, SweepCalls
<1>4. Askings \subseteq Askings'
  BY <1>1 DEF Askings, EachCalls
<1>5. Listings \subseteq Listings'
  BY <1>2 DEF Listings
<1>6. StepSet \subseteq StepSet'
  BY <1>3, <1>4, <1>5 DEF StepSet
<1>7. QED
  BY <1>1, <1>2, <1>6

\* A program begins with something and, if it lists, with the first page.
LEMMA FirstSteps ==
  ASSUME subject \in Subjects
  PROVE  /\ Steps \in Seq(StepSet) /\ Steps # <<>>
         /\ NoList(Steps) => ~Program.lists
<1> DEFINE first == Sweeps(Program.before)
           pages == IF Program.lists THEN <<List(0)>> ELSE <<>>
           last  == Sweeps(Program.after)
<1>1. Shaped(Program)
  BY ProgramShape
<1>2. ASSUME NEW q, IsSequence(q), Elements(q) \subseteq SweepCalls
      PROVE  Sweeps(q) \in Seq(StepSet) /\ Len(Sweeps(q)) = Len(q)
  <2>1. q \in Seq(SweepCalls) /\ Len(q) \in Nat /\ DOMAIN q = 1..Len(q)
    BY <1>2, LenProperties DEF IsSequence
  <2>2. \A i \in 1..Len(q) : Sweep(q[i]) \in StepSet
    BY <2>1, LenProperties DEF Sweep, StepSet, Sweepings
  <2>3. QED
    BY <2>1, <2>2 DEF Sweeps
<1>3. first \in Seq(StepSet) /\ last \in Seq(StepSet) /\ Len(first) = Len(Program.before)
  BY <1>1, <1>2 DEF Shaped, SweepCalls
<1>4. List(0) \in StepSet
  BY ThingsAssumption DEF List, StepSet, Listings
<1>5. pages \in Seq(StepSet)
  BY <1>4
<1>6. first \o pages \in Seq(StepSet) /\ (first \o pages) \o last \in Seq(StepSet)
  BY <1>3, <1>5, Joined
<1>7. NoList(Steps) => ~Program.lists
  <2>1. NoList(Steps) => NoList(pages)
    BY <1>3, <1>5, <1>6, Joined DEF Steps
  <2>2. Program.lists => ~NoList(pages)
    BY DEF NoList, List
  <2>3. QED
    BY <2>1, <2>2
<1>8. Steps # <<>>
  <2>1. Len(Steps) = Len(first) + Len(pages) + Len(last)
    <3>1. Len(first \o pages) = Len(first) + Len(pages)
      BY <1>3, <1>5, ConcatProperties
    <3>2. Len((first \o pages) \o last) = Len(first \o pages) + Len(last)
      BY <1>3, <1>6, ConcatProperties
    <3>3. QED
      BY <3>1, <3>2 DEF Steps
  <2>2. Len(first) \in Nat /\ Len(pages) \in Nat /\ Len(last) \in Nat
    BY <1>3, <1>5, LenProperties
  <2>3. Len(first) > 0 \/ Len(pages) > 0
    BY <1>1, <1>3, EmptySeq DEF Shaped, IsSequence
  <2>4. QED
    BY <2>1, <2>2, <2>3
<1>9. QED
  BY <1>6, <1>7, <1>8 DEF Steps

LEMMA Start == Init => IInv
<1>1. SUFFICES ASSUME Init PROVE IInv
  OBVIOUS
<1>2. subject \in Subjects /\ past = {world} /\ todo = Steps /\ listed = {}
      /\ outcome = "running"
  BY <1>1 DEF Init
<1>3. DOMAIN world \subseteq Things \cup {0}
  BY <1>1 DEF Init, Worlds
<1>4. Accountable
  BY <1>2, <1>3 DEF Accountable
<1>5. Left /\ ListedAll
  BY <1>2, FirstSteps DEF Left, ListedAll, Running
<1>6. FailureHasCause
  BY <1>2 DEF FailureHasCause
<1>7. QED
  BY <1>4, <1>5, <1>6 DEF IInv
-----------------------------------------------------------------------------
(***************************************************************************)
(* What the steps of the collection have in common.                        *)
(***************************************************************************)
LEMMA Proceeds ==
  ASSUME IInv, Running, NEW rest, Advance(rest),
         rest \in Seq(StepSet'), listed \subseteq listed', listed' \subseteq Things,
         Program.lists /\ NoList(rest) => \A t \in Things : Throughout(t) => t \in listed'
  PROVE  IInv'
<1>1. UNCHANGED <<subject, world, past>> /\ todo' = rest /\ outcome' = Done(rest)
  BY DEF Advance
<1>2. Accountable'
  BY <1>1 DEF IInv, Accountable
<1>3. Left'
  BY <1>1 DEF Left, Done, Running
<1>4. ListedAll'
  BY <1>1, StepsStay DEF ListedAll
<1>5. FailureHasCause'
  BY <1>1 DEF FailureHasCause, Done
<1>6. QED
  BY <1>2, <1>3, <1>4, <1>5 DEF IInv

\* The step that is next, and what is left after it.
LEMMA NextStep ==
  ASSUME IInv, Running
  PROVE  /\ Head(todo) \in StepSet /\ Tail(todo) \in Seq(StepSet)
         /\ NoList(todo) <=> Head(todo).step # "list" /\ NoList(Tail(todo))
  BY Headed DEF IInv, Left

LEMMA SweepAllKeeps == IInv /\ SweepAll => IInv'
<1>1. SUFFICES ASSUME IInv, SweepAll PROVE IInv'
  OBVIOUS
<1>2. Running /\ Head(todo).step = "sweep" /\ listed' = listed /\ Advance(Tail(todo))
      /\ subject' = subject /\ past' = past
  BY <1>1 DEF SweepAll, Advance
<1>3. Tail(todo) \in Seq(StepSet')
  BY <1>1, <1>2, NextStep, StepsStay
<1>4. Program.lists /\ NoList(Tail(todo)) => \A t \in Things : Throughout(t) => t \in listed'
  BY <1>1, <1>2, NextStep DEF IInv, ListedAll, Running
<1>5. QED
  BY <1>1, <1>2, <1>3, <1>4, Proceeds DEF IInv, Accountable

\* Calls about listed things may be left, and list nothing.
LEMMA AsksLeft ==
  ASSUME subject \in Subjects, subject' = subject, NEW things, things \subseteq listed'
  PROVE  Asks(things) \in Seq(StepSet') /\ NoList(Asks(things))
<1>1. Program' = Program /\ EachCalls' = EachCalls
  BY DEF Program, collector, EachCalls
<1>2. Program.each \in Seq(EachCalls)
  BY ProgramShape DEF Shaped, IsSequence, EachCalls
<1>3. CASE things = {} \/ Program.each = <<>>
  BY <1>3 DEF Asks, NoList
<1>4. CASE ~(things = {} \/ Program.each = <<>>)
  <2>1. Ask(things, Program.each) \in StepSet'
    BY <1>1, <1>2, <1>4 DEF Ask, StepSet, Askings
  <2>2. Asks(things) = <<Ask(things, Program.each)>>
    BY <1>4 DEF Asks
  <2>3. QED
    BY <2>1, <2>2 DEF NoList, Ask
<1>5. QED
  BY <1>3, <1>4

LEMMA ListPageKeeps == IInv /\ ListPage => IInv'
<1>1. SUFFICES ASSUME IInv, ListPage PROVE IInv'
  OBVIOUS
<1> DEFINE there      == {t \in DOMAIN world \ {0} : t > Head(todo).cursor}
           page(last) == {t \in there : t <= last}
           kept(last) == {t \in page(last) : Kept(world[t])}
           next(last) == IF More(there \ page(last)) THEN <<List(last)>> ELSE <<>>
<1>2. PICK last \in there \cup {0} :
        /\ listed' = listed \cup kept(last)
        /\ Advance(Asks(kept(last)) \o next(last) \o Tail(todo))
  BY <1>1 DEF ListPage
<1>3. Running /\ Head(todo).step = "list" /\ UNCHANGED <<subject, past>>
  BY <1>1, <1>2 DEF ListPage, Advance
<1>4. Head(todo) \in Listings
  BY <1>1, <1>3, NextStep DEF StepSet, Sweepings, Askings
<1>5. Accountable /\ there \subseteq Things /\ last \in Nat
  <2>1. Accountable /\ DOMAIN world \subseteq Things \cup {0}
    BY <1>1 DEF IInv, Accountable
  <2>2. there \subseteq Things
    BY <2>1
  <2>3. 0 \in Nat /\ \A t \in Things : t \in Nat
    BY ThingsAssumption
  <2>4. last \in Nat
    BY <2>2, <2>3, <1>2
  <2>5. QED
    BY <2>1, <2>2, <2>4
<1>6. listed \subseteq listed' /\ listed' \subseteq Things /\ kept(last) \subseteq listed'
  BY <1>2, <1>5 DEF Accountable
<1>7. \A t \in Things : Throughout(t) /\ (t <= last \/ t <= Head(todo).cursor) => t \in listed'
  <2>1. SUFFICES ASSUME NEW t \in Things, Throughout(t), t <= last \/ t <= Head(todo).cursor
                 PROVE  t \in listed'
    OBVIOUS
  <2>2. t \in DOMAIN world /\ Kept(world[t]) /\ t # 0
    BY <1>5, <2>1, ThingsAssumption DEF Accountable, Throughout
  <2>3. CASE t <= Head(todo).cursor
    BY <1>4, <1>6, <2>1, <2>3 DEF Listings
  <2>4. CASE ~(t <= Head(todo).cursor)
    <3>1. t \in there
      BY <1>4, <2>2, <2>4, ThingsAssumption DEF Listings
    <3>2. t \in kept(last)
      BY <2>1, <2>2, <2>4, <3>1
    <3>3. QED
      BY <1>6, <3>2
  <2>5. QED
    BY <2>3, <2>4
<1>8. /\ Asks(kept(last)) \in Seq(StepSet') /\ NoList(Asks(kept(last)))
  BY <1>3, <1>5, <1>6, AsksLeft DEF Accountable
<1>9. next(last) \in Seq(StepSet')
  <2>1. \A t \in Things : t <= last /\ Throughout(t)' => t \in listed'
    BY <1>3, <1>6, <1>7, StepsStay
  <2>2. List(last) \in Listings'
    BY <1>5, <2>1 DEF Listings, List
  <2>3. List(last) \in StepSet'
    BY <2>2 DEF StepSet
  <2>4. next(last) = <<List(last)>> \/ next(last) = <<>>
    OBVIOUS
  <2>5. QED
    BY <2>3, <2>4
<1>10. Tail(todo) \in Seq(StepSet')
  BY <1>1, <1>3, <1>6, NextStep, StepsStay
<1>11. Asks(kept(last)) \o next(last) \o Tail(todo) \in Seq(StepSet')
  BY <1>8, <1>9, <1>10, Joined
<1>12. NoList(Asks(kept(last)) \o next(last) \o Tail(todo)) =>
        \A t \in Things : Throughout(t) => t \in listed'
  <2>1. SUFFICES ASSUME NoList(Asks(kept(last)) \o next(last) \o Tail(todo))
                 PROVE  \A t \in Things : Throughout(t) => t \in listed'
    OBVIOUS
  <2>2. NoList(next(last))
    <3>1. Asks(kept(last)) \o next(last) \in Seq(StepSet')
      BY <1>8, <1>9, Joined
    <3>2. NoList(Asks(kept(last)) \o next(last))
      BY <1>10, <2>1, <3>1, Joined
    <3> HIDE DEF next, kept
    <3>3. QED
      BY <1>8, <1>9, <3>2, Joined
  <2>3. there \ page(last) = {}
    BY <2>2 DEF NoList, More, List
  <2>4. \A t \in Things : Throughout(t) => t <= last \/ t <= Head(todo).cursor
    <3>1. TAKE t \in Things
    <3>2. Throughout(t) => t \in DOMAIN world \ {0}
      BY <1>5, ThingsAssumption DEF Accountable, Throughout
    <3>3. QED
      BY <1>4, <2>3, <3>2, ThingsAssumption DEF Listings
  <2>5. QED
    BY <1>7, <2>4
<1>13. QED
  BY <1>1, <1>2, <1>3, <1>6, <1>11, <1>12, Proceeds
-----------------------------------------------------------------------------
(***************************************************************************)
(* Calls about one thing.                                                  *)
(***************************************************************************)
\* The step such a call is a part of.
LEMMA TheAsk ==
  ASSUME IInv, NEW t \in Things, Asking(t)
  PROVE  /\ Running /\ Head(todo) \in Askings /\ t \in listed
         /\ NextCall \in EachCalls
<1>1. Running /\ Head(todo).step = "ask" /\ t \in Head(todo).things
  BY DEF Asking
<1>2. Head(todo) \in Askings
  BY <1>1, NextStep DEF StepSet, Sweepings, Listings
<1>3. QED
  BY <1>1, <1>2, HeadTailProperties DEF Askings, NextCall

LEMMA GoesOn ==
  ASSUME IInv, NEW t \in Things, Asking(t), Advance(AfterCall(t)), listed' = listed
  PROVE  IInv'
<1> DEFINE ask   == Head(todo)
           again == IF Len(ask.calls) > 1 THEN <<Ask(ask.things, Tail(ask.calls))>>
                    ELSE Asks(ask.things \ {t})
<1>1. Running /\ ask \in Askings /\ UNCHANGED <<subject, past>> /\ Accountable
  BY TheAsk DEF Advance, IInv
<1>2. again \in Seq(StepSet') /\ NoList(again)
  <2>1. CASE Len(ask.calls) > 1
    <3>1. ask.calls \in Seq(EachCalls) /\ ask.calls # <<>> /\ ask.things \subseteq listed
      BY <1>1 DEF Askings
    <3>2. Tail(ask.calls) \in Seq(EachCalls) /\ Tail(ask.calls) # <<>>
      <4> DEFINE calls == ask.calls
      <4>1. calls \in Seq(EachCalls) /\ calls # <<>> /\ Len(calls) > 1
        BY <2>1, <3>1
      <4> HIDE DEF calls
      <4>2. Tail(calls) \in Seq(EachCalls) /\ Len(Tail(calls)) = Len(calls) - 1
        BY <4>1, HeadTailProperties
      <4>3. Len(calls) \in Nat
        BY <4>1, LenProperties
      <4>4. Tail(calls) # <<>>
        <5>1. Len(Tail(calls)) # 0
          BY <4>1, <4>2, <4>3
        <5>2. QED
          BY <4>2, <5>1, EmptySeq
      <4>5. QED
        BY <4>2, <4>4 DEF calls
    <3>3. Ask(ask.things, Tail(ask.calls)) \in StepSet
      BY <3>1, <3>2 DEF Ask, StepSet, Askings
    <3>4. Ask(ask.things, Tail(ask.calls)) \in StepSet'
      BY <1>1, <3>3, StepsStay
    <3>5. QED
      BY <2>1, <3>4 DEF NoList, Ask
  <2>2. CASE ~(Len(ask.calls) > 1)
    <3>1. ask.things \ {t} \subseteq listed'
      BY <1>1 DEF Askings
    <3>2. QED
      BY <1>1, <2>2, <3>1, AsksLeft DEF Accountable
  <2>3. QED
    BY <2>1, <2>2
<1>3. Tail(todo) \in Seq(StepSet')
  BY <1>1, NextStep, StepsStay
<1>4. AfterCall(t) = again \o Tail(todo)
  BY DEF AfterCall
<1> HIDE DEF again
<1>5. AfterCall(t) \in Seq(StepSet') /\ (NoList(AfterCall(t)) => NoList(Tail(todo)))
  BY <1>2, <1>3, <1>4, Joined
<1>6. NoList(Tail(todo)) => NoList(todo)
  BY <1>1, NextStep DEF Askings
<1>7. Program.lists /\ NoList(AfterCall(t)) => \A u \in Things : Throughout(u) => u \in listed'
  BY <1>1, <1>5, <1>6 DEF IInv, ListedAll, Running
<1>8. QED
  BY <1>1, <1>5, <1>7, Proceeds DEF Accountable

\* A collection is given up for a thing that it listed and that is gone.
LEMMA GivesUp ==
  ASSUME IInv, NEW t \in Things, NotFound(t), ~Tolerates(NextCall.operation, Exists(t))
  PROVE  IInv'
<1>1. /\ outcome' = "missing" /\ todo' = <<>>
      /\ UNCHANGED <<subject, world, past, listed>>
      /\ Asking(t) /\ ~Answers(t, NextCall.operation)
  BY DEF NotFound
<1>2. t \in listed /\ NextCall \in EachCalls /\ Accountable
  BY <1>1, TheAsk DEF IInv
<1>3. ~Exists(t)
  <2>1. SUFFICES ASSUME Exists(t) PROVE FALSE
    OBVIOUS
  <2>2. NoSuch(NextCall.operation, world[t])
    BY <1>1, <2>1 DEF Answers
  <2>3. Tolerates(NextCall.operation, TRUE)
    BY <1>2, <2>2, NeverMade DEF Accountable
  <2>4. QED
    BY <2>1, <2>3 DEF Exists
<1>4. FailureHasCause'
  BY <1>1, <1>2, <1>3 DEF FailureHasCause, Exists
<1>5. Accountable' /\ Left' /\ ListedAll'
  BY <1>1, <1>2 DEF Accountable, Left, ListedAll, Running
<1>6. QED
  BY <1>4, <1>5 DEF IInv

LEMMA CallKeeps ==
  ASSUME IInv, NEW t \in Things, Skip(t) \/ Answered(t) \/ NotFound(t)
  PROVE  IInv'
<1>1. CASE Skip(t)
  BY <1>1, GoesOn DEF Skip
<1>2. CASE Answered(t)
  BY <1>2, GoesOn DEF Answered
<1>3. CASE NotFound(t)
  <2>1. CASE Tolerates(NextCall.operation, Exists(t))
    BY <1>3, <2>1, GoesOn DEF NotFound
  <2>2. QED
    BY <1>3, <2>1, GivesUp
<1>4. QED
  BY <1>1, <1>2, <1>3
-----------------------------------------------------------------------------
(***************************************************************************)
(* Changes of the account.                                                 *)
(***************************************************************************)
LEMMA ChangeKeeps ==
  ASSUME IInv, NEW w, Becomes(w), DOMAIN w \subseteq Things \cup {0}
  PROVE  IInv'
<1>1. /\ Running /\ world' = w /\ past' = past \cup {w}
      /\ UNCHANGED <<subject, todo, listed, outcome>>
  BY DEF Becomes
<1>2. Accountable'
  BY <1>1 DEF IInv, Accountable
<1>3. Left'
  BY <1>1, StepsStay DEF IInv, Left, Running
<1>4. ListedAll'
  BY <1>1, StepsStay DEF IInv, ListedAll, NoList
<1>5. FailureHasCause'
  BY <1>1 DEF FailureHasCause, Running
<1>6. QED
  BY <1>2, <1>3, <1>4, <1>5 DEF IInv

LEMMA Inductive == IInv /\ [Next]_vars => IInv'
<1>1. SUFFICES ASSUME IInv, [Next]_vars PROVE IInv'
  OBVIOUS
<1>2. DOMAIN world \subseteq Things \cup {0}
  BY <1>1 DEF IInv, Accountable
<1>3. CASE SweepAll
  BY <1>1, <1>3, SweepAllKeeps
<1>4. CASE ListPage
  BY <1>1, <1>4, ListPageKeeps
<1>5. CASE \E t \in Things : Skip(t) \/ Answered(t) \/ NotFound(t)
  BY <1>1, <1>5, CallKeeps
<1>6. CASE Reconfigure
  <2>1. PICK t \in DOMAIN world : \E c : Becomes([world EXCEPT ![t] = c])
    BY <1>6 DEF Reconfigure
  <2>2. PICK c : Becomes([world EXCEPT ![t] = c])
    BY <2>1
  <2>3. DOMAIN [world EXCEPT ![t] = c] = DOMAIN world
    OBVIOUS
  <2>4. QED
    BY <1>1, <1>2, <2>2, <2>3, ChangeKeeps
<1>7. CASE Create
  <2>1. PICK t \in Things : \E c :
          Becomes([i \in DOMAIN world \cup {t} |-> IF i = t THEN c ELSE world[i]])
    BY <1>7 DEF Create
  <2>2. PICK c : Becomes([i \in DOMAIN world \cup {t} |-> IF i = t THEN c ELSE world[i]])
    BY <2>1
  <2>3. QED
    BY <1>1, <1>2, <2>2, ChangeKeeps
<1>8. CASE Delete
  <2>1. PICK t \in DOMAIN world : Becomes([i \in DOMAIN world \ {t} |-> world[i]])
    BY <1>8 DEF Delete
  <2>2. QED
    BY <1>1, <1>2, <2>1, ChangeKeeps
<1>9. CASE UNCHANGED vars
  BY <1>1, <1>9 DEF vars, IInv, Accountable, Left, ListedAll, FailureHasCause, StepSet, Sweepings,
     SweepCalls, Listings, Askings, EachCalls, Throughout, Program, collector, Running, Exists
<1>10. QED
  BY <1>1, <1>3, <1>4, <1>5, <1>6, <1>7, <1>8, <1>9 DEF Next

\* What is left and what is listed, in every reachable state.
THEOREM Invariant == Spec => []IInv
  BY Start, Inductive, PTL DEF Spec

\* However the account changes between the pages and the calls of a
\* collection, what was there all the time is among what it listed.
THEOREM NothingMissedEver == Spec => []NothingMissed
<1>1. IInv => NothingMissed
  BY DEF IInv, Left, ListedAll, NothingMissed, Complete, Running, NoList
<1>2. QED
  BY <1>1, Invariant, PTL

\* A collection is given up as incomplete only when something that it listed
\* was deleted: a setting that was never made is no error.
THEOREM FailureIsCaused == Spec => []FailureHasCause
<1>1. IInv => FailureHasCause
  BY DEF IInv
<1>2. QED
  BY <1>1, Invariant, PTL
-----------------------------------------------------------------------------
(***************************************************************************)
(* What is known of the things.                                            *)
(***************************************************************************)
Was(t) == \E w \in past : t \in DOMAIN w

\* The account is always there, everything is configured as it may be, and
\* only what was there once is listed or known of.
Configured ==
  /\ \A w \in past \cup {world} : 0 \in DOMAIN w
  /\ DOMAIN seen = Things \cup {0}
  /\ \A w \in past : \A t \in DOMAIN w : w[t] \in Configs(subject, t)
  /\ \A t \in listed : Was(t)
  /\ \A t \in Things \cup {0} : DOMAIN seen[t] # {} => Was(t)

\* Something that is said of a thing was so, or the thing is gone.
WasSo(t, a, value) ==
  \/ \E w \in past : t \in DOMAIN w /\ a \in DOMAIN w[t] /\ w[t][a] = value
  \/ collector = "ibm.cos.buckets" /\ a = "policy" /\ value = {} /\ ~Exists(t)

Sound(t, known) == \A a \in DOMAIN known : WasSo(t, a, known[a])

\* The calls that ask for settings that may never have been made.
Optional ==
  {"get_bucket_policy", "get_bucket_policy_status", "get_public_access_block",
   "get_bucket_encryption", "get_account_public_access_block", "get_account_password_policy"}

CallsOf(p) == Elements(p.before) \cup Elements(p.each) \cup Elements(p.after)

Firm(p) == \A c \in CallsOf(p) : c.operation \notin Optional

LEMMA ElementsOf ==
  /\ Elements(<<>>) = {}
  /\ \A a : Elements(<<a>>) = {a}
  /\ \A a, b : Elements(<<a, b>>) = {a, b}
  /\ \A a, b, c : Elements(<<a, b, c>>) = {a, b, c}
  /\ \A a, b, c, d, e, f, g : Elements(<<a, b, c, d, e, f, g>>) = {a, b, c, d, e, f, g}
  BY DEF Elements

LEMMA AwsFirm ==
  \A k \in AwsNames \ {"aws.s3.buckets", "aws.s3.account", "aws.iam.principals"} : Firm(AwsProgram(k))
<1>1. Firm(SecurityGroups)
  BY ElementsOf DEF SecurityGroups, Firm, CallsOf, Lister, Call, Optional
<1>2. Firm(CloudTrail)
  BY ElementsOf DEF CloudTrail, Firm, CallsOf, Lister, Call, Optional
<1>3. Firm(KmsKeys)
  BY ElementsOf DEF KmsKeys, Firm, CallsOf, Lister, Call, Optional
<1>4. QED
  BY <1>1, <1>2, <1>3 DEF AwsNames, AwsProgram

LEMMA AzureFirm ==
  \A k \in AzureNames : Firm(AzureProgram(k))
<1>1. Firm(Inventory)
  BY ElementsOf DEF Inventory, Firm, CallsOf, Lister, Call, Optional
<1>2. Firm(StorageAccounts)
  BY ElementsOf DEF StorageAccounts, Firm, CallsOf, Lister, Call, Optional
<1>3. Firm(StorageContainers)
  BY ElementsOf DEF StorageContainers, StorageAccounts, Firm, CallsOf, Lister, Call, Optional
<1>4. Firm(NetworkSecurityGroups)
  BY ElementsOf DEF NetworkSecurityGroups, Firm, CallsOf, Lister, Call, Optional
<1>5. Firm(RoleAssignments)
  BY ElementsOf DEF RoleAssignments, Firm, CallsOf, Lister, Call, Optional
<1>6. Firm(DiagnosticSettings)
  BY ElementsOf DEF DiagnosticSettings, Firm, CallsOf, Lister, Call, Optional
<1>7. Firm(KeyVaults)
  BY ElementsOf DEF KeyVaults, Firm, CallsOf, Lister, Call, Optional
<1>8. QED
  BY <1>1, <1>2, <1>3, <1>4, <1>5, <1>6, <1>7 DEF AzureNames, AzureProgram

LEMMA GcpFirm ==
  \A k \in GcpNames : Firm(GcpProgram(k))
<1>1. Firm(GcpInventory)
  BY ElementsOf DEF GcpInventory, Firm, CallsOf, Lister, Call, Optional
<1>2. Firm(StorageBuckets)
  BY ElementsOf DEF StorageBuckets, Firm, CallsOf, Lister, Call, Optional
<1>3. Firm(ComputeFirewalls)
  BY ElementsOf DEF ComputeFirewalls, Firm, CallsOf, Lister, Call, Optional
<1>4. Firm(ProjectIamPolicy)
  BY ElementsOf DEF ProjectIamPolicy, Firm, CallsOf, Lister, Call, Optional
<1>5. Firm(AuditConfig)
  BY ElementsOf DEF AuditConfig, Reader, Firm, CallsOf, Lister, Call, Optional
<1>6. Firm(GcpKmsKeys)
  BY ElementsOf DEF GcpKmsKeys, Firm, CallsOf, Lister, Call, Optional
<1>7. QED
  BY <1>1, <1>2, <1>3, <1>4, <1>5, <1>6 DEF GcpNames, GcpProgram

LEMMA IbmFirm ==
  \A k \in IbmNames \ {"ibm.cos.buckets"} : Firm(IbmProgram(k))
<1>1. Firm(IbmInventory)
  BY ElementsOf DEF IbmInventory, Firm, CallsOf, Lister, Call, Optional
<1>2. Firm(IbmSecurityGroups)
  BY ElementsOf DEF IbmSecurityGroups, Firm, CallsOf, Lister, Call, Optional
<1>3. Firm(NetworkAcls)
  BY ElementsOf DEF NetworkAcls, Firm, CallsOf, Lister, Call, Optional
<1>4. Firm(IamPolicies)
  BY ElementsOf DEF IamPolicies, Firm, CallsOf, Lister, Call, Optional
<1>5. Firm(IamIdentity)
  BY ElementsOf DEF IamIdentity, Firm, CallsOf, Lister, Call, Optional
<1>6. Firm(IamUsers)
  BY ElementsOf DEF IamUsers, Firm, CallsOf, Lister, Call, Optional
<1>7. QED
  BY <1>1, <1>2, <1>3, <1>4, <1>5, <1>6 DEF IbmNames, IbmProgram

\* The collectors that make such calls.
Asker == {"aws.s3.buckets", "aws.s3.account", "aws.iam.principals", "ibm.cos.buckets"}

LEMMA TheirPrograms ==
  /\ collector = "aws.s3.buckets" => Program = S3Buckets
  /\ collector = "aws.s3.account" => Program = S3Account
  /\ collector = "aws.iam.principals" => Program = IamPrincipals
  /\ collector = "ibm.cos.buckets" => Program = CosBuckets
  BY DEF Program, AwsNames, AzureNames, GcpNames, IbmNames, AwsProgram, IbmProgram

LEMMA OthersAreFirm ==
  ASSUME subject \in Subjects, collector \notin Asker, NEW c \in SweepCalls \cup EachCalls, NEW config
  PROVE  ~NoSuch(c.operation, config)
<1>1. Firm(Program)
  BY AwsFirm, AzureFirm, GcpFirm, IbmFirm, SubjectsAssumption DEF Program, collector, Asker
<1>2. c.operation \notin Optional
  BY <1>1 DEF Firm, CallsOf, SweepCalls, EachCalls
<1>3. QED
  BY <1>2 DEF NoSuch, Optional

\* What a thing may be configured to.
LEMMA ConfigOfThing ==
  ASSUME subject \in Subjects, NEW t \in Things, NEW config \in Configs(subject, t)
  PROVE  config \in ThingConfigs(collector) /\ Consistent(collector, config)
  BY ConfigsAssumption DEF collector

LEMMA ConfigOfAccount ==
  ASSUME subject \in Subjects, NEW config \in Configs(subject, 0)
  PROVE  config \in AccountConfigs(collector)
  BY ConfigsAssumption DEF collector

\* What a missing answer about a thing, or about the account, is taken for is
\* what the setting counts as that was never made.
LEMMA MissingIsSo ==
  ASSUME subject \in Subjects, NEW c \in EachCalls, NEW t \in Things,
         NEW config \in Configs(subject, t), NoSuch(c.operation, config), NEW a \in c.reads
  PROVE  a \in DOMAIN config /\ config[a] = Missing[a]
<1>1. CASE collector = "aws.s3.buckets"
  <2>1. EachCalls = Elements(S3Buckets.each)
    BY <1>1, TheirPrograms DEF EachCalls
  <2>2. c \in {Call("get_bucket_location", {}),
              Call("get_bucket_policy_status", {"public"}),
              Call("get_public_access_block", {"block"}),
              Call("get_bucket_encryption", {"encryption"}),
              Call("get_bucket_versioning", {}),
              Call("get_bucket_logging", {"logging"}),
              Call("get_bucket_policy", {"policy"})}
    BY <2>1, ElementsOf DEF S3Buckets, Lister
  <2>3. /\ {"public", "policy", "block", "encryption"} \subseteq DOMAIN config
        /\ config.policy = {} => config.public = FALSE
    BY <1>1, ConfigOfThing DEF ThingConfigs, Consistent
  <2>4. CASE c = Call("get_bucket_policy_status", {"public"})
    <3>1. c.operation = "get_bucket_policy_status" /\ a = "public"
      BY <2>4 DEF Call
    <3>2. config.policy = {}
      BY <1>1, <3>1 DEF NoSuch
    <3>3. config["public"] = FALSE /\ Missing["public"] = FALSE
      BY <2>3, <3>2 DEF Missing
    <3>4. config["public"] = Missing["public"]
      BY <3>3, Zenon
    <3>5. QED
      BY <2>3, <3>1, <3>4
  <2>5. CASE c = Call("get_public_access_block", {"block"})
    BY <1>1, <2>3, <2>5 DEF Call, NoSuch, Missing
  <2>6. CASE c = Call("get_bucket_encryption", {"encryption"})
    BY <1>1, <2>3, <2>6 DEF Call, NoSuch, Missing
  <2>7. CASE c = Call("get_bucket_policy", {"policy"})
    BY <1>1, <2>3, <2>7 DEF Call, NoSuch, Missing
  <2>8. CASE c \in {Call("get_bucket_location", {}), Call("get_bucket_versioning", {}),
                    Call("get_bucket_logging", {"logging"})}
    BY <2>8 DEF Call, NoSuch
  <2>9. QED
    BY <2>2, <2>4, <2>5, <2>6, <2>7, <2>8
<1>2. CASE collector = "aws.s3.account"
  <2>1. EachCalls = Elements(S3Account.each)
    BY <1>2, TheirPrograms DEF EachCalls
  <2>2. QED
    BY <2>1, ElementsOf DEF S3Account, Reader, Lister
<1>3. CASE collector = "aws.iam.principals"
  <2>1. EachCalls = Elements(IamPrincipals.each)
    BY <1>3, TheirPrograms DEF EachCalls
  <2>2. c \in {Call("list_access_keys", {"keys"}), Call("list_mfa_devices", {"mfa"})}
    BY <2>1, ElementsOf DEF IamPrincipals, Lister
  <2>3. QED
    BY <2>2 DEF Call, NoSuch
<1>4. CASE collector = "ibm.cos.buckets"
  <2>1. EachCalls = Elements(CosBuckets.each)
    BY <1>4, TheirPrograms DEF EachCalls
  <2>2. c \in {Call("get_bucket_acl", {"acl"}), Call("get_bucket_policy", {"policy"}),
              Call("get_bucket_policy_status", {"public"})}
    BY <2>1, ElementsOf DEF CosBuckets, Lister
  <2>3. "policy" \in DOMAIN config
    BY <1>4, ConfigOfThing DEF ThingConfigs
  <2>4. QED
    BY <1>4, <2>2, <2>3 DEF Call, NoSuch, Missing
<1>5. QED
  BY <1>1, <1>2, <1>3, <1>4, OthersAreFirm DEF Asker

LEMMA MissingOfAccountIsSo ==
  ASSUME subject \in Subjects, NEW c \in SweepCalls,
         NEW config \in Configs(subject, 0), NoSuch(c.operation, config), NEW a \in c.reads
  PROVE  a \in DOMAIN config /\ config[a] = Missing[a]
<1>1. CASE collector \in {"aws.s3.buckets", "ibm.cos.buckets"}
  <2>1. SweepCalls = {}
    BY <1>1, TheirPrograms, ElementsOf DEF SweepCalls, S3Buckets, CosBuckets, Lister
  <2>2. QED
    BY <2>1
<1>2. CASE collector = "aws.s3.account"
  <2>1. SweepCalls = Elements(S3Account.before) \cup Elements(S3Account.after)
    BY <1>2, TheirPrograms DEF SweepCalls
  <2>2. c = Call("get_account_public_access_block", {"block"})
    BY <2>1, ElementsOf DEF S3Account, Reader, Lister
  <2>3. "block" \in DOMAIN config
    BY <1>2, ConfigOfAccount DEF AccountConfigs
  <2>4. QED
    BY <2>2, <2>3 DEF Call, NoSuch, Missing
<1>3. CASE collector = "aws.iam.principals"
  <2>1. SweepCalls = Elements(IamPrincipals.before) \cup Elements(IamPrincipals.after)
    BY <1>3, TheirPrograms DEF SweepCalls
  <2>2. c \in {Call("get_account_summary", {"root_keys", "root_mfa"}),
              Call("get_account_password_policy", {"password_policy"}),
              Call("get_credential_report", {})}
    BY <2>1, ElementsOf DEF IamPrincipals, Lister
  <2>3. "password_policy" \in DOMAIN config
    BY <1>3, ConfigOfAccount DEF AccountConfigs
  <2>4. QED
    BY <2>2, <2>3 DEF Call, NoSuch, Missing
<1>4. QED
  BY <1>1, <1>2, <1>3, OthersAreFirm DEF Asker

\* Only IBM reads on when the thing itself is gone, and only its policy.
LEMMA GoneIsEmpty ==
  ASSUME subject \in Subjects, NEW c \in EachCalls, Tolerates(c.operation, FALSE), NEW a \in c.reads
  PROVE  collector = "ibm.cos.buckets" /\ a = "policy" /\ Missing[a] = {}
<1>1. collector = "ibm.cos.buckets" /\ c.operation = "get_bucket_policy"
  BY DEF Tolerates
<1>2. EachCalls = Elements(CosBuckets.each)
  BY <1>1, TheirPrograms DEF EachCalls
<1>3. c \in {Call("get_bucket_acl", {"acl"}), Call("get_bucket_policy", {"policy"}),
            Call("get_bucket_policy_status", {"public"})}
  BY <1>2, ElementsOf DEF CosBuckets, Lister
<1>4. QED
  BY <1>1, <1>3 DEF Call, Missing

LEMMA KnownIsSound == KnownWasSo <=> \A t \in Things \cup {0} : Sound(t, seen[t])
  BY DEF KnownWasSo, Sound, WasSo

LEMMA AddedIsSound ==
  ASSUME NEW t, NEW known, Sound(t, known), NEW answer, Sound(t, answer)
  PROVE  Sound(t, Added(known, answer))
<1> DEFINE both == Added(known, answer)
<1>1. /\ DOMAIN both = DOMAIN known \cup DOMAIN answer
      /\ \A a \in DOMAIN both : both[a] = IF a \in DOMAIN answer THEN answer[a] ELSE known[a]
  BY DEF Added
<1> HIDE DEF both
<1>2. Sound(t, both)
  BY <1>1 DEF Sound
<1>3. QED
  BY <1>2 DEF both

\* Answers are about the account as it is.
LEMMA LearnIsSound ==
  ASSUME IInv, NEW t, Sound(t, seen[t]), Exists(t), NEW aspects
  PROVE  Sound(t, Learn(t, aspects))
<1> DEFINE answer == [a \in aspects \cap DOMAIN world[t] |-> world[t][a]]
<1>1. world \in past
  BY DEF IInv, Accountable
<1>2. Sound(t, answer)
  BY <1>1 DEF Sound, WasSo, Exists
<1>3. QED
  BY <1>2, AddedIsSound DEF Learn

LEMMA LearnMissingIsSound ==
  ASSUME NEW t, Sound(t, seen[t]), NEW aspects, \A a \in aspects : WasSo(t, a, Missing[a])
  PROVE  Sound(t, LearnMissing(t, aspects))
<1> DEFINE answer == [a \in aspects |-> Missing[a]]
<1>1. Sound(t, answer)
  BY DEF Sound
<1>2. QED
  BY <1>1, AddedIsSound DEF LearnMissing

\* Steps that leave the account alone.
LEMMA LearningKeeps ==
  ASSUME IInv, Configured, UNCHANGED <<subject, world, past>>,
         DOMAIN seen' = DOMAIN seen,
         \A t \in Things \cup {0} : Sound(t, seen'[t]) /\ (seen'[t] = seen[t] \/ Was(t)),
         \A t \in listed' : Was(t)
  PROVE  Configured' /\ KnownWasSo'
<1>1. Configured'
  BY DEF Configured, Was
<1>2. \A t \in Things \cup {0} : Sound(t, seen[t])'
  BY DEF Sound, WasSo, collector, Exists
<1>3. KnownWasSo'
  BY <1>2 DEF KnownWasSo, Sound, WasSo
<1>4. QED
  BY <1>1, <1>3

LEMMA SweepLearns ==
  ASSUME IInv, Configured, KnownWasSo, SweepAll
  PROVE  Configured' /\ KnownWasSo'
<1> DEFINE call == Head(todo).call
<1>1. /\ UNCHANGED <<subject, world, past, listed>> /\ Running /\ Head(todo).step = "sweep"
  BY DEF SweepAll, Advance
<1>2. call \in SweepCalls /\ Accountable
  BY <1>1, NextStep DEF StepSet, Sweepings, Listings, Askings, IInv
<1>3. \A t \in Things \cup {0} : Sound(t, seen[t])
  BY KnownIsSound
<1>4. DOMAIN seen = Things \cup {0} /\ 0 \in DOMAIN world /\ world[0] \in Configs(subject, 0)
  BY <1>2 DEF Configured, Accountable
<1>5. CASE NoSuch(call.operation, world[0])
  <2>1. seen' = [seen EXCEPT ![0] = LearnMissing(0, call.reads)]
    BY <1>5 DEF SweepAll
  <2>2. \A a \in call.reads : WasSo(0, a, Missing[a])
    BY <1>2, <1>4, <1>5, MissingOfAccountIsSo DEF WasSo, Accountable
  <2>3. Sound(0, LearnMissing(0, call.reads))
    BY <1>3, <2>2, LearnMissingIsSound
  <2>4. Was(0)
    BY <1>2, <1>4 DEF Was, Accountable
  <2>5. \A t \in Things \cup {0} : Sound(t, seen'[t]) /\ (seen'[t] = seen[t] \/ Was(t))
    BY <1>3, <1>4, <2>1, <2>3, <2>4
  <2>6. QED
    BY <1>1, <2>1, <2>5, LearningKeeps DEF Configured
<1>6. CASE ~NoSuch(call.operation, world[0])
  <2>1. seen' = [t \in DOMAIN seen |-> IF Exists(t) THEN Learn(t, call.reads) ELSE seen[t]]
    BY <1>6 DEF SweepAll
  <2>2. \A t \in Things \cup {0} : Exists(t) => Sound(t, Learn(t, call.reads)) /\ Was(t)
    BY <1>2, <1>3, LearnIsSound DEF Exists, Was, Accountable
  <2>3. \A t \in Things \cup {0} : Sound(t, seen'[t]) /\ (seen'[t] = seen[t] \/ Was(t))
    BY <1>3, <1>4, <2>1, <2>2
  <2>4. QED
    BY <1>1, <2>1, <2>3, LearningKeeps DEF Configured
<1>7. QED
  BY <1>5, <1>6

LEMMA ListLearns ==
  ASSUME IInv, Configured, KnownWasSo, ListPage
  PROVE  Configured' /\ KnownWasSo'
<1>1. PICK kept \in SUBSET DOMAIN world :
        /\ listed' = listed \cup kept
        /\ seen' = [t \in DOMAIN seen |-> IF t \in kept THEN Learn(t, Program.item) ELSE seen[t]]
        /\ UNCHANGED <<subject, world, past>>
  <2> DEFINE there      == {t \in DOMAIN world \ {0} : t > Head(todo).cursor}
             page(last) == {t \in there : t <= last}
             kept(last) == {t \in page(last) : Kept(world[t])}
  <2>1. PICK last \in there \cup {0} :
          /\ listed' = listed \cup kept(last)
          /\ seen' = [t \in DOMAIN seen |->
                        IF t \in kept(last) THEN Learn(t, Program.item) ELSE seen[t]]
          /\ UNCHANGED <<subject, world, past>>
    BY DEF ListPage, Advance
  <2>2. QED
    BY <2>1
<1>2. Accountable /\ DOMAIN seen = Things \cup {0}
  BY DEF Configured, IInv
<1>3. \A t \in Things \cup {0} : Sound(t, seen[t])
  BY KnownIsSound
<1>4. \A t \in kept : Was(t) /\ Exists(t)
  BY <1>2 DEF Was, Exists, Accountable
<1>5. \A t \in Things \cup {0} : Sound(t, seen'[t]) /\ (seen'[t] = seen[t] \/ Was(t))
  BY <1>1, <1>2, <1>3, <1>4, LearnIsSound
<1>6. QED
  BY <1>1, <1>4, <1>5, LearningKeeps DEF Configured

LEMMA CallLearns ==
  ASSUME IInv, Configured, KnownWasSo, NEW t \in Things, Skip(t) \/ Answered(t) \/ NotFound(t)
  PROVE  Configured' /\ KnownWasSo'
<1>1. UNCHANGED <<subject, world, past, listed>> /\ Asking(t)
  BY DEF Skip, Answered, NotFound, Advance
<1>2. t \in listed /\ NextCall \in EachCalls /\ Accountable /\ Was(t)
  BY <1>1, TheAsk DEF IInv, Configured
<1>3. DOMAIN seen = Things \cup {0} /\ \A u \in Things \cup {0} : Sound(u, seen[u])
  BY KnownIsSound DEF Configured
<1>4. ASSUME NEW known, Sound(t, known), seen' = [seen EXCEPT ![t] = known]
      PROVE  Configured' /\ KnownWasSo'
  <2>1. \A u \in Things \cup {0} : Sound(u, seen'[u]) /\ (seen'[u] = seen[u] \/ Was(u))
    BY <1>2, <1>3, <1>4
  <2>2. QED
    BY <1>1, <1>4, <2>1, LearningKeeps DEF Configured
<1>5. CASE seen' = seen
  BY <1>1, <1>3, <1>5, LearningKeeps DEF Configured
<1>6. CASE Answered(t)
  <2>1. Exists(t) /\ seen' = [seen EXCEPT ![t] = Learn(t, NextCall.reads)]
    BY <1>6 DEF Answered, Answers
  <2>2. Sound(t, Learn(t, NextCall.reads))
    BY <1>3, <2>1, LearnIsSound
  <2>3. QED
    BY <1>4, <2>1, <2>2
<1>7. CASE NotFound(t) /\ seen' # seen
  <2>1. /\ seen' = [seen EXCEPT ![t] = LearnMissing(t, NextCall.reads)]
        /\ Tolerates(NextCall.operation, Exists(t)) /\ ~Answers(t, NextCall.operation)
    BY <1>7 DEF NotFound
  <2>2. ASSUME NEW a \in NextCall.reads PROVE WasSo(t, a, Missing[a])
    <3>1. CASE Exists(t)
      <4>1. NoSuch(NextCall.operation, world[t])
        BY <2>1, <3>1 DEF Answers
      <4>2. world[t] \in Configs(subject, t)
        BY <1>2, <3>1 DEF Configured, Accountable, Exists
      <4>3. QED
        BY <1>2, <2>2, <3>1, <4>1, <4>2, MissingIsSo DEF WasSo, Accountable, Exists
    <3>2. CASE ~Exists(t)
      <4>1. Tolerates(NextCall.operation, FALSE)
        BY <2>1, <3>2 DEF Tolerates
      <4>2. QED
        BY <1>2, <2>2, <3>2, <4>1, GoneIsEmpty DEF WasSo, Accountable
    <3>3. QED
      BY <3>1, <3>2
  <2>3. Sound(t, LearnMissing(t, NextCall.reads))
    BY <1>3, <2>2, LearnMissingIsSound
  <2>4. QED
    BY <1>4, <2>1, <2>3
<1>8. QED
  BY <1>5, <1>6, <1>7 DEF Skip

\* What is gone does not come back, so what was taken for granted of it stays.
LEMMA ChangeForgetsNothing ==
  ASSUME IInv, Configured, KnownWasSo, NEW w, Becomes(w), 0 \in DOMAIN w,
         \A t \in DOMAIN w : w[t] \in Configs(subject, t) /\ (Exists(t) \/ ~Was(t))
  PROVE  Configured' /\ KnownWasSo'
<1>1. world' = w /\ past' = past \cup {w} /\ UNCHANGED <<subject, listed, seen>>
  BY DEF Becomes
<1>2. \A t : Was(t) => Was(t)'
  BY <1>1 DEF Was
<1>3. Configured'
  <2>1. \A v \in past' : \A t \in DOMAIN v : v[t] \in Configs(subject', t)
    <3>1. SUFFICES ASSUME NEW v \in past \cup {w}, NEW t \in DOMAIN v
                   PROVE  v[t] \in Configs(subject, t)
      BY <1>1
    <3>2. CASE v = w
      BY <3>2
    <3>3. CASE v \in past
      BY <3>3 DEF Configured
    <3>4. QED
      BY <3>2, <3>3
  <2>2. \A t \in listed' : Was(t)'
    BY <1>1, <1>2 DEF Configured
  <2>3. \A t \in Things \cup {0} : DOMAIN seen'[t] # {} => Was(t)'
    BY <1>1, <1>2 DEF Configured
  <2>4. QED
    BY <1>1, <2>1, <2>2, <2>3 DEF Configured
<1>4. \A t \in Things \cup {0} : Sound(t, seen[t])
  BY KnownIsSound
<1>5. ASSUME NEW t \in Things \cup {0}, NEW a \in DOMAIN seen[t]
      PROVE  WasSo(t, a, seen[t][a])'
  <2>1. WasSo(t, a, seen[t][a]) /\ Was(t)
    BY <1>4, <1>5 DEF Sound, Configured
  <2>2. ~Exists(t) => ~Exists(t)'
    BY <1>1, <2>1 DEF Exists
  <2>3. QED
    BY <1>1, <2>1, <2>2 DEF WasSo, collector
<1>6. KnownWasSo'
  BY <1>1, <1>5 DEF KnownWasSo, WasSo
<1>7. QED
  BY <1>3, <1>6

LEMMA KnowledgeStays ==
  ASSUME IInv, Configured, KnownWasSo, [Next]_vars
  PROVE  Configured' /\ KnownWasSo'
<1>1. world \in past /\ 0 \in DOMAIN world /\ \A t \in DOMAIN world : world[t] \in Configs(subject, t)
  BY DEF IInv, Accountable, Configured
<1>2. CASE SweepAll
  BY <1>2, SweepLearns
<1>3. CASE ListPage
  BY <1>3, ListLearns
<1>4. CASE \E t \in Things : Skip(t) \/ Answered(t) \/ NotFound(t)
  BY <1>4, CallLearns
<1>5. CASE Reconfigure
  <2>1. PICK t \in DOMAIN world : \E c \in Configs(subject, t) : Becomes([world EXCEPT ![t] = c])
    BY <1>5 DEF Reconfigure
  <2>2. PICK c \in Configs(subject, t) : Becomes([world EXCEPT ![t] = c])
    BY <2>1
  <2> DEFINE w == [world EXCEPT ![t] = c]
  <2>3. DOMAIN w = DOMAIN world /\ \A u \in DOMAIN w : w[u] \in Configs(subject, u) /\ Exists(u)
    BY <1>1 DEF Exists
  <2>4. QED
    BY <1>1, <2>2, <2>3, ChangeForgetsNothing
<1>6. CASE Create
  <2>1. PICK t \in Things : \E c \in Configs(subject, t) :
          /\ ~Was(t)
          /\ Becomes([i \in DOMAIN world \cup {t} |-> IF i = t THEN c ELSE world[i]])
    BY <1>6 DEF Create, Was
  <2>2. PICK c \in Configs(subject, t) :
          Becomes([i \in DOMAIN world \cup {t} |-> IF i = t THEN c ELSE world[i]])
    BY <2>1
  <2> DEFINE w == [i \in DOMAIN world \cup {t} |-> IF i = t THEN c ELSE world[i]]
  <2>3. 0 \in DOMAIN w /\ \A u \in DOMAIN w : w[u] \in Configs(subject, u) /\ (Exists(u) \/ ~Was(u))
    BY <1>1, <2>1 DEF Exists
  <2>4. QED
    BY <2>2, <2>3, ChangeForgetsNothing
<1>7. CASE Delete
  <2>1. PICK t \in DOMAIN world \ {0} : Becomes([i \in DOMAIN world \ {t} |-> world[i]])
    BY <1>7 DEF Delete
  <2> DEFINE w == [i \in DOMAIN world \ {t} |-> world[i]]
  <2>2. 0 \in DOMAIN w /\ \A u \in DOMAIN w : w[u] \in Configs(subject, u) /\ Exists(u)
    BY <1>1 DEF Exists
  <2>3. QED
    BY <2>1, <2>2, ChangeForgetsNothing
<1>8. CASE UNCHANGED vars
  BY <1>8 DEF vars, Configured, Was, KnownWasSo, collector, Exists
<1>9. QED
  BY <1>2, <1>3, <1>4, <1>5, <1>6, <1>7, <1>8 DEF Next

LEMMA NothingKnownYet == Init => Configured /\ KnownWasSo
<1>1. SUFFICES ASSUME Init PROVE Configured /\ KnownWasSo
  OBVIOUS
<1>2. seen = [t \in Things \cup {0} |-> <<>>] /\ listed = {} /\ past = {world}
  BY <1>1 DEF Init
<1>3. 0 \in DOMAIN world /\ \A t \in DOMAIN world : world[t] \in Configs(subject, t)
  BY <1>1 DEF Init, Worlds
<1>4. \A t \in Things \cup {0} : DOMAIN seen[t] = {}
  BY <1>2
<1>5. QED
  BY <1>2, <1>3, <1>4 DEF Configured, KnownWasSo

\* At any time, whatever a collection holds for true of a thing was so since it
\* began, though its answers are of different times and some stand for a
\* setting that was never made; but for an IBM bucket policy whose bucket is gone.
THEOREM NothingMadeUp == Spec => []KnownWasSo
<1>1. IInv /\ Configured /\ KnownWasSo /\ [Next]_vars => (Configured /\ KnownWasSo)'
  BY KnowledgeStays
<1>2. QED
  BY <1>1, NothingKnownYet, Invariant, PTL DEF Spec
-----------------------------------------------------------------------------
(***************************************************************************)
(* What is known of a thing, and of how much of the past it is.             *)
(***************************************************************************)
\* The calls that are still to be made about a thing.
CallsLeft(t) ==
  IF ~(todo # <<>> /\ Head(todo).step = "ask" /\ t \in Head(todo).things) THEN {}
  ELSE IF \E u \in Head(todo).things : u < t THEN EachCalls
  ELSE Elements(Head(todo).calls)

\* What is known of a thing rules out that a call is worth it.
Unneeded(t, operation) ==
  \/ /\ collector = "aws.kms.keys" /\ operation = "get_key_rotation_status"
     /\ "supports" \in DOMAIN seen[t] /\ seen[t].supports # "yes"
  \/ /\ collector = "ibm.iam.identity.users" /\ operation = "get_mfa_status"
     /\ "report" \in DOMAIN seen[t] /\ IbmTri(seen[t].report) # "unknown"

Told(t, call) == call.reads \subseteq DOMAIN seen[t] \/ Unneeded(t, call.operation)

\* What is listed is known as far as the listing tells, and as far as the
\* calls tell that are not left.
Informed ==
  /\ \A t \in listed : Program.item \subseteq DOMAIN seen[t]
  /\ outcome # "missing" =>
       \A t \in listed : \A c \in EachCalls : Told(t, c) \/ c \in CallsLeft(t)

\* A collector that lists nothing has nothing but calls about everything.
Unlisted == ~Program.lists => listed = {} /\ todo \in Seq(Sweepings)

\* Whether a key supports rotation is asked before how it is rotated.
KmsSteps ==
  [step : {"list"}, cursor : Nat]
    \cup [step : {"ask"}, things : SUBSET Things, calls : {KmsKeys.each, Tail(KmsKeys.each)}]

KmsOrder == collector = "aws.kms.keys" => todo \in Seq(KmsSteps)

\* What a call about everything tells of something that was there all the
\* time is known when the call is done.
Always(t, a) == \A w \in past : t \in DOMAIN w /\ a \in DOMAIN w[t]

Swept ==
  outcome # "missing" =>
    \A c \in SweepCalls : \A t \in Things \cup {0} : \A a \in c.reads :
      (t = 0 \/ collector \notin Asker) /\ Always(t, a) =>
        Sweep(c) \in Elements(todo) \/ a \in DOMAIN seen[t]

\* Collectors of which one answer tells all that is read of a thing.
AtOnce ==
  {"azure.network.security_groups", "azure.keyvault.vaults", "gcp.compute.firewalls",
   "gcp.kms.keys"}

Agrees(known, config) == \A a \in DOMAIN config : a \in DOMAIN known /\ known[a] = config[a]

Whole ==
  collector \in AtOnce =>
    \A t \in Things : DOMAIN seen[t] # {} => \E w \in past : t \in DOMAIN w /\ Agrees(seen[t], w[t])

\* Whether a key supports rotation does not change, and the rotation is known
\* only of a key that supports it.
SupportStays ==
  collector = "aws.kms.keys" =>
    /\ \A v, w \in past : \A t \in (DOMAIN v \cap DOMAIN w) \ {0} : v[t].supports = w[t].supports
    /\ \A t \in Things : "rotation" \in DOMAIN seen[t] =>
         \A w \in past : t \in DOMAIN w => w[t].supports = "yes"

\* Two worlds that are one change apart, a change of thing u.
OneApart(v, w, u) ==
  /\ \A t \in (Things \cup {0}) \ {u} :
       /\ t \in DOMAIN v <=> t \in DOMAIN w
       /\ t \in DOMAIN v => v[t] = w[t]
  /\ u \in DOMAIN v \cap DOMAIN w =>
       \E b : \A a \in (DOMAIN v[u] \cap DOMAIN w[u]) \ Follows : a # b => v[u][a] = w[u][a]

FewChanges ==
  /\ changes \in 0..MaxChanges
  /\ changes = 0 => past = {world}
  /\ changes = 1 => \E v \in past : \E u \in Things \cup {0} : past = {v, world} /\ OneApart(v, world, u)

\* What is known so far of collections and the account.
Ground == IInv /\ Configured /\ KnownWasSo

\* What is known, related to the past of the account.
Knowing == Informed /\ Unlisted /\ KmsOrder /\ Swept /\ Whole /\ SupportStays /\ FewChanges

-----------------------------------------------------------------------------
(***************************************************************************)
(* What the programs read, and when.                                       *)
(***************************************************************************)
\* A program reads of a thing what things of its kind have, and only two
\* collectors have calls that may not be worth it.
Readable(k, p) ==
  /\ \A config \in ThingConfigs(k) : p.item \subseteq DOMAIN config
  /\ \A c \in Elements(p.each) :
       /\ \A config \in ThingConfigs(k) : c.reads \subseteq DOMAIN config
       /\ c.operation = "get_key_rotation_status" => k = "aws.kms.keys"
       /\ c.operation = "get_mfa_status" => k = "ibm.iam.identity.users"

LEMMA AwsReadable == \A k \in AwsNames : Readable(k, AwsProgram(k))
<1>1. Readable("aws.s3.buckets", S3Buckets)
  BY ElementsOf DEF Readable, S3Buckets, Lister, Call, ThingConfigs
<1>2. Readable("aws.s3.account", S3Account)
  BY ElementsOf DEF Readable, S3Account, Reader, Lister
<1>3. Readable("aws.ec2.security_groups", SecurityGroups)
  BY ElementsOf DEF Readable, SecurityGroups, Lister
<1>4. Readable("aws.iam.principals", IamPrincipals)
  BY ElementsOf DEF Readable, IamPrincipals, Lister, Call, ThingConfigs
<1>5. Readable("aws.cloudtrail.trails", CloudTrail)
  BY ElementsOf DEF Readable, CloudTrail, Lister, Call, ThingConfigs
<1>6. Readable("aws.kms.keys", KmsKeys)
  BY ElementsOf DEF Readable, KmsKeys, Lister, Call, ThingConfigs
<1>7. QED
  BY <1>1, <1>2, <1>3, <1>4, <1>5, <1>6 DEF AwsNames, AwsProgram

LEMMA AzureReadable == \A k \in AzureNames : Readable(k, AzureProgram(k))
<1>1. Readable("azure.inventory.resources", Inventory)
  BY ElementsOf DEF Readable, Inventory, Lister, ThingConfigs
<1>2. Readable("azure.storage.accounts", StorageAccounts)
  BY ElementsOf DEF Readable, StorageAccounts, Lister, ThingConfigs, StorageAccountConfigs
<1>3. Readable("azure.storage.containers", StorageContainers)
  BY ElementsOf DEF Readable, StorageContainers, StorageAccounts, Lister, Call, ThingConfigs,
     StorageAccountConfigs
<1>4. Readable("azure.network.security_groups", NetworkSecurityGroups)
  BY ElementsOf DEF Readable, NetworkSecurityGroups, Lister, ThingConfigs
<1>5. Readable("azure.authorization.role_assignments", RoleAssignments)
  BY ElementsOf DEF Readable, RoleAssignments, Lister
<1>6. Readable("azure.monitor.diagnostic_settings", DiagnosticSettings)
  BY ElementsOf DEF Readable, DiagnosticSettings, Lister, Call, ThingConfigs
<1>7. Readable("azure.keyvault.vaults", KeyVaults)
  BY ElementsOf DEF Readable, KeyVaults, Lister, ThingConfigs
<1>8. QED
  BY <1>1, <1>2, <1>3, <1>4, <1>5, <1>6, <1>7 DEF AzureNames, AzureProgram

LEMMA GcpReadable == \A k \in GcpNames : Readable(k, GcpProgram(k))
<1>1. Readable("gcp.inventory.assets", GcpInventory)
  BY ElementsOf DEF Readable, GcpInventory, Lister
<1>2. Readable("gcp.storage.buckets", StorageBuckets)
  BY ElementsOf DEF Readable, StorageBuckets, Lister, Call, ThingConfigs
<1>3. Readable("gcp.compute.firewalls", ComputeFirewalls)
  BY ElementsOf DEF Readable, ComputeFirewalls, Lister, ThingConfigs
<1>4. Readable("gcp.iam.project_policy", ProjectIamPolicy)
  BY ElementsOf DEF Readable, ProjectIamPolicy, Lister
<1>5. Readable("gcp.logging.audit_config", AuditConfig)
  BY ElementsOf DEF Readable, AuditConfig, Reader, Lister
<1>6. Readable("gcp.kms.keys", GcpKmsKeys)
  BY ElementsOf DEF Readable, GcpKmsKeys, Lister, Call, ThingConfigs
<1>7. QED
  BY <1>1, <1>2, <1>3, <1>4, <1>5, <1>6 DEF GcpNames, GcpProgram

LEMMA IbmReadable == \A k \in IbmNames : Readable(k, IbmProgram(k))
<1>1. Readable("ibm.inventory.resources", IbmInventory)
  BY ElementsOf DEF Readable, IbmInventory, Lister
<1>2. Readable("ibm.cos.buckets", CosBuckets)
  BY ElementsOf DEF Readable, CosBuckets, Lister, Call, ThingConfigs
<1>3. Readable("ibm.vpc.security_groups", IbmSecurityGroups)
  BY ElementsOf DEF Readable, IbmSecurityGroups, Lister, Call, ThingConfigs, RuleSetConfigs
<1>4. Readable("ibm.vpc.network_acls", NetworkAcls)
  BY ElementsOf DEF Readable, NetworkAcls, Lister, Call, ThingConfigs, RuleSetConfigs
<1>5. Readable("ibm.iam.policies", IamPolicies)
  BY ElementsOf DEF Readable, IamPolicies, Lister
<1>6. Readable("ibm.iam.identity", IamIdentity)
  BY ElementsOf DEF Readable, IamIdentity, Lister
<1>7. Readable("ibm.iam.identity.users", IamUsers)
  BY ElementsOf DEF Readable, IamUsers, Lister, Call, ThingConfigs
<1>8. QED
  BY <1>1, <1>2, <1>3, <1>4, <1>5, <1>6, <1>7 DEF IbmNames, IbmProgram

LEMMA ProgramReads ==
  ASSUME subject \in Subjects
  PROVE  /\ \A t \in Things : \A config \in Configs(subject, t) :
              /\ Program.item \subseteq DOMAIN config
              /\ \A c \in EachCalls : c.reads \subseteq DOMAIN config
         /\ \A c \in EachCalls :
              /\ c.operation = "get_key_rotation_status" => collector = "aws.kms.keys"
              /\ c.operation = "get_mfa_status" => collector = "ibm.iam.identity.users"
<1>1. Readable(collector, Program)
  BY AwsReadable, AzureReadable, GcpReadable, IbmReadable, SubjectsAssumption DEF Program, collector
<1>2. QED
  BY <1>1, ConfigOfThing DEF Readable, EachCalls
-----------------------------------------------------------------------------
(***************************************************************************)
(* What the steps of the collection add.                                   *)
(***************************************************************************)
LEMMA ElementsSplit ==
  ASSUME NEW S, NEW q \in Seq(S), q # <<>>
  PROVE  /\ Elements(q) = {Head(q)} \cup Elements(Tail(q))
         /\ Len(q) > 1 \/ Tail(q) = <<>>
<1>1. /\ Tail(q) \in Seq(S) /\ Head(q) = q[1]
      /\ Len(q) \in Nat \ {0} /\ Len(Tail(q)) = Len(q) - 1
      /\ \A i \in 1..Len(q) - 1 : Tail(q)[i] = q[i + 1]
      /\ DOMAIN q = 1..Len(q) /\ DOMAIN Tail(q) = 1..Len(q) - 1
  BY HeadTailProperties, LenProperties, EmptySeq
<1>2. Elements(q) \subseteq {Head(q)} \cup Elements(Tail(q))
  <2>1. SUFFICES ASSUME NEW i \in 1..Len(q), i # 1 PROVE q[i] \in Elements(Tail(q))
    BY <1>1 DEF Elements
  <2>2. i - 1 \in 1..Len(q) - 1 /\ (i - 1) + 1 = i
    BY <1>1, <2>1
  <2>3. QED
    BY <1>1, <2>2 DEF Elements
<1>3. {Head(q)} \cup Elements(Tail(q)) \subseteq Elements(q)
  <2>1. SUFFICES ASSUME NEW i \in 1..Len(q) - 1 PROVE Tail(q)[i] \in Elements(q)
    BY <1>1 DEF Elements
  <2>2. i + 1 \in 1..Len(q) /\ Tail(q)[i] = q[i + 1]
    BY <1>1, <2>1
  <2>3. QED
    BY <1>1, <2>2 DEF Elements
<1>4. Len(q) > 1 \/ Tail(q) = <<>>
  BY <1>1, EmptySeq
<1>5. QED
  BY <1>2, <1>3, <1>4

LEMMA ElementsJoin ==
  ASSUME NEW S, NEW p \in Seq(S), NEW q \in Seq(S)
  PROVE  Elements(p \o q) = Elements(p) \cup Elements(q)
<1>1. /\ Len(p \o q) = Len(p) + Len(q) /\ p \o q \in Seq(S)
      /\ \A i \in 1..Len(p) + Len(q) :
           (p \o q)[i] = IF i <= Len(p) THEN p[i] ELSE q[i - Len(p)]
      /\ Len(p) \in Nat /\ Len(q) \in Nat
      /\ DOMAIN p = 1..Len(p) /\ DOMAIN q = 1..Len(q) /\ DOMAIN (p \o q) = 1..Len(p) + Len(q)
  BY ConcatProperties, LenProperties
<1>2. Elements(q) \subseteq Elements(p \o q)
  <2>1. SUFFICES ASSUME NEW i \in 1..Len(q) PROVE q[i] \in Elements(p \o q)
    BY <1>1 DEF Elements
  <2>2. i + Len(p) \in 1..Len(p) + Len(q) /\ (p \o q)[i + Len(p)] = q[i]
    BY <1>1
  <2>3. QED
    BY <1>1, <2>2 DEF Elements
<1>3. Elements(p) \subseteq Elements(p \o q)
  <2>1. SUFFICES ASSUME NEW i \in 1..Len(p) PROVE p[i] \in Elements(p \o q)
    BY <1>1 DEF Elements
  <2>2. i \in 1..Len(p) + Len(q) /\ (p \o q)[i] = p[i]
    BY <1>1
  <2>3. QED
    BY <1>1, <2>2 DEF Elements
<1>4. Elements(p \o q) \subseteq Elements(p) \cup Elements(q)
  <2>1. SUFFICES ASSUME NEW i \in 1..Len(p) + Len(q)
                 PROVE  (p \o q)[i] \in Elements(p) \cup Elements(q)
    BY <1>1 DEF Elements
  <2>2. CASE i <= Len(p)
    BY <1>1, <2>2 DEF Elements
  <2>3. CASE ~(i <= Len(p))
    <3>1. i - Len(p) \in 1..Len(q)
      BY <1>1, <2>3
    <3>2. QED
      BY <1>1, <2>3, <3>1 DEF Elements
  <2>4. QED
    BY <2>2, <2>3
<1>5. QED
  BY <1>2, <1>3, <1>4

\* What follows a first step.
LEMMA HeadOfJoin ==
  ASSUME NEW R, NEW q \in Seq(R), NEW s
  PROVE  <<s>> \o q # <<>> /\ Head(<<s>> \o q) = s /\ Tail(<<s>> \o q) = q
<1> DEFINE S == R \cup {s}
<1>1. <<s>> \in Seq(S) /\ Len(<<s>>) = 1 /\ <<s>>[1] = s /\ q \in Seq(S)
  OBVIOUS
<1> HIDE DEF S
<1>2. Len(q) \in Nat /\ q = [i \in 1..Len(q) |-> q[i]]
  BY LenProperties
<1>3. <<s>> \o q \in Seq(S) /\ Len(<<s>> \o q) = 1 + Len(q)
      /\ \A i \in 1..1 + Len(q) : (<<s>> \o q)[i] = IF i <= 1 THEN <<s>>[i] ELSE q[i - 1]
  BY <1>1, ConcatProperties
<1>4. <<s>> \o q # <<>> /\ Head(<<s>> \o q) = s
  BY <1>1, <1>2, <1>3, HeadTailProperties, EmptySeq
<1>5. Tail(<<s>> \o q) = q
  <2>1. Tail(<<s>> \o q) \in Seq(S) /\ Len(Tail(<<s>> \o q)) = Len(q)
        /\ \A i \in 1..Len(q) : Tail(<<s>> \o q)[i] = (<<s>> \o q)[i + 1]
    BY <1>2, <1>3, <1>4, HeadTailProperties
  <2>2. \A i \in 1..Len(q) : (<<s>> \o q)[i + 1] = q[i]
    <3>1. TAKE i \in 1..Len(q)
    <3>2. i + 1 \in 1..1 + Len(q) /\ ~(i + 1 <= 1) /\ (i + 1) - 1 = i
      BY <1>2
    <3>3. QED
      BY <1>3, <3>2
  <2>3. QED
    BY <2>1, <2>2, SeqEqual
<1>6. QED
  BY <1>4, <1>5

\* The step for a page that may follow.
LEMMA NextPage ==
  ASSUME NEW next \in {<<>>} \cup {<<List(n)>> : n \in Nat}, NEW R, \A n \in Nat : List(n) \in R
  PROVE  next \in Seq(R)
<1>1. CASE next = <<>>
  BY <1>1
<1>2. CASE next # <<>>
  <2>1. PICK n \in Nat : next = <<List(n)>>
    BY <1>2
  <2>2. QED
    BY <2>1
<1>3. QED
  BY <1>1, <1>2

\* The calls that are left, when the next one is done.
LEMMA CallDone ==
  ASSUME IInv, NEW t \in Things, Asking(t), todo' = AfterCall(t), subject' = subject,
         NEW u \in Things
  PROVE  CallsLeft(u) \subseteq CallsLeft(u)' \cup (IF u = t THEN {NextCall} ELSE {})
<1> DEFINE ask    == Head(todo)
           calls  == ask.calls
           things == ask.things
<1>1. /\ ask \in Askings /\ Tail(todo) \in Seq(StepSet) /\ todo # <<>>
      /\ ask.step = "ask" /\ t \in things /\ \A v \in things : t <= v
      /\ NextCall \in EachCalls /\ things \subseteq Things
  <2>1. ask \in Askings /\ Running /\ NextCall \in EachCalls
    BY TheAsk
  <2>2. Tail(todo) \in Seq(StepSet) /\ todo # <<>>
    BY <2>1, NextStep DEF IInv, Left
  <2>3. QED
    BY <2>1, <2>2 DEF Asking, IInv, Accountable, Askings
<1>2. calls \in Seq(EachCalls) /\ calls # <<>> /\ NextCall = Head(calls)
  BY <1>1 DEF Askings, NextCall
<1>3. Elements(calls) = {NextCall} \cup Elements(Tail(calls)) /\ (Len(calls) > 1 \/ Tail(calls) = <<>>)
  <2> HIDE DEF calls
  <2>1. QED
    BY <1>2, ElementsSplit
<1>4. EachCalls' = EachCalls /\ Program' = Program
  BY DEF EachCalls, Program, collector
<1>5. CallsLeft(u) = IF u \notin things THEN {}
                     ELSE IF \E v \in things : v < u THEN EachCalls ELSE Elements(calls)
  BY <1>1 DEF CallsLeft
<1>6. u \in things /\ ~(\E v \in things : v < u) => u = t
  <2>1. u \in Nat /\ t \in Nat
    BY ThingsAssumption
  <2>2. QED
    BY <1>1, <2>1
<1>7. CASE Len(calls) > 1
  <2> DEFINE next == Ask(things, Tail(calls))
  <2>1. todo' = <<next>> \o Tail(todo)
    BY <1>7 DEF AfterCall
  <2>2. todo' # <<>> /\ Head(todo') = next
    BY <1>1, <2>1, HeadOfJoin
  <2>3. CallsLeft(u)' = IF u \notin things THEN {}
                        ELSE IF \E v \in things : v < u THEN EachCalls ELSE Elements(Tail(calls))
    BY <1>4, <2>2 DEF CallsLeft, Ask
  <2>4. QED
    BY <1>3, <1>5, <1>6, <2>3
<1>8. CASE ~(Len(calls) > 1)
  <2> DEFINE rest == things \ {t}
             next == Ask(rest, Program.each)
  <2>1. Elements(calls) = {NextCall}
    BY <1>3, <1>8, ElementsOf
  <2>2. CASE u = t \/ u \notin things
    <3>1. u = t => ~(\E v \in things : v < u)
      BY <1>1, ThingsAssumption
    <3>2. QED
      BY <1>5, <2>1, <2>2, <3>1
  <2>3. CASE u # t /\ u \in things
    <3>1. rest # {} /\ Program.each # <<>>
      BY <1>1, <2>3, ElementsOf DEF EachCalls
    <3>2. todo' = <<next>> \o Tail(todo)
      BY <1>8, <3>1 DEF AfterCall, Asks
    <3>3. todo' # <<>> /\ Head(todo') = next
      BY <1>1, <3>2, HeadOfJoin
    <3>4. CallsLeft(u)' = EachCalls
      BY <1>4, <2>3, <3>3 DEF CallsLeft, Ask, EachCalls
    <3>5. CallsLeft(u) = EachCalls
      BY <1>5, <1>6, <2>3
    <3>6. QED
      BY <3>4, <3>5
  <2>4. QED
    BY <2>2, <2>3
<1>9. QED
  BY <1>7, <1>8

LEMMA LearnAdds ==
  ASSUME NEW t, NEW aspects
  PROVE  /\ DOMAIN Learn(t, aspects) = DOMAIN seen[t] \cup (aspects \cap DOMAIN world[t])
         /\ \A a \in DOMAIN Learn(t, aspects) :
              Learn(t, aspects)[a] = IF a \in aspects \cap DOMAIN world[t] THEN world[t][a] ELSE seen[t][a]
  BY DEF Learn, Added

LEMMA LearnMissingAdds ==
  ASSUME NEW t, NEW aspects
  PROVE  /\ DOMAIN LearnMissing(t, aspects) = DOMAIN seen[t] \cup aspects
         /\ \A a \in DOMAIN LearnMissing(t, aspects) :
              LearnMissing(t, aspects)[a] = IF a \in aspects THEN Missing[a] ELSE seen[t][a]
  BY DEF LearnMissing, Added

\* A call about a thing that does not end the collection.
LEMMA CallTells ==
  ASSUME Ground, NEW t \in Things, Skip(t) \/ Answered(t) \/ NotFound(t), outcome' # "missing"
  PROVE  /\ UNCHANGED <<subject, world, past, changes, listed>>
         /\ Asking(t) /\ t \in listed /\ NextCall \in EachCalls /\ todo' = AfterCall(t)
         /\ DOMAIN seen' = DOMAIN seen /\ \A u \in Things \cup {0} : u # t => seen'[u] = seen[u]
         /\ \/ ~Needed(t, NextCall.operation) /\ seen'[t] = seen[t]
            \/ /\ Needed(t, NextCall.operation)
               /\ DOMAIN seen'[t] = DOMAIN seen[t] \cup NextCall.reads
               /\ \A a \in DOMAIN seen[t] \ NextCall.reads : seen'[t][a] = seen[t][a]
               /\ Answered(t) \/ collector \in Asker
               /\ Answered(t) => Exists(t) /\ \A a \in NextCall.reads : seen'[t][a] = world[t][a]
<1>1. UNCHANGED <<subject, world, past, changes, listed>> /\ Asking(t) /\ todo' = AfterCall(t)
  BY DEF Skip, Answered, NotFound, Advance
<1>2. t \in listed /\ NextCall \in EachCalls /\ subject \in Subjects
  BY <1>1, TheAsk DEF Ground, IInv, Accountable
<1>3. DOMAIN seen = Things \cup {0}
  BY DEF Ground, Configured
<1>4. CASE Skip(t)
  BY <1>1, <1>2, <1>4 DEF Skip
<1>5. CASE Answered(t)
  <2>1. Needed(t, NextCall.operation) /\ Exists(t) /\ seen' = [seen EXCEPT ![t] = Learn(t, NextCall.reads)]
    BY <1>5 DEF Answered, Answers
  <2>2. NextCall.reads \subseteq DOMAIN world[t]
    BY <1>2, <2>1, ProgramReads DEF Ground, IInv, Accountable, Configured, Exists
  <2>3. seen'[t] = Learn(t, NextCall.reads) /\ DOMAIN seen' = DOMAIN seen
        /\ \A u \in Things \cup {0} : u # t => seen'[u] = seen[u]
    BY <1>3, <2>1
  <2>4. ASSUME NEW reads, reads = NextCall.reads, NEW known, known = Learn(t, reads)
        PROVE  /\ DOMAIN known = DOMAIN seen[t] \cup reads
               /\ \A a \in DOMAIN seen[t] \ reads : known[a] = seen[t][a]
               /\ \A a \in reads : known[a] = world[t][a]
    <3>1. reads \cap DOMAIN world[t] = reads
      BY <2>2, <2>4
    <3>2. QED
      BY <2>4, <3>1, LearnAdds
  <2>5. /\ DOMAIN seen'[t] = DOMAIN seen[t] \cup NextCall.reads
        /\ \A a \in DOMAIN seen[t] \ NextCall.reads : seen'[t][a] = seen[t][a]
        /\ \A a \in NextCall.reads : seen'[t][a] = world[t][a]
    BY <2>3, <2>4
  <2>6. QED
    BY <1>1, <1>2, <1>5, <2>1, <2>3, <2>5
<1>6. CASE NotFound(t)
  <2>1. /\ Needed(t, NextCall.operation) /\ ~Answers(t, NextCall.operation)
        /\ Tolerates(NextCall.operation, Exists(t))
        /\ seen' = [seen EXCEPT ![t] = LearnMissing(t, NextCall.reads)]
    BY <1>6 DEF NotFound
  <2>2. seen'[t] = LearnMissing(t, NextCall.reads) /\ DOMAIN seen' = DOMAIN seen
        /\ \A u \in Things \cup {0} : u # t => seen'[u] = seen[u]
    BY <1>3, <2>1
  <2>3. collector \in Asker
    <3>1. CASE Exists(t)
      <4>1. NoSuch(NextCall.operation, world[t])
        BY <2>1, <3>1 DEF Answers
      <4>2. QED
        BY <1>2, <4>1, OthersAreFirm
    <3>2. CASE ~Exists(t)
      BY <2>1, <3>2 DEF Tolerates, Asker
    <3>3. QED
      BY <3>1, <3>2
  <2>4. ~Answered(t)
    BY <2>1 DEF Answered
  <2>5. ASSUME NEW reads, NEW known, known = LearnMissing(t, reads)
        PROVE  /\ DOMAIN known = DOMAIN seen[t] \cup reads
               /\ \A a \in DOMAIN seen[t] \ reads : known[a] = seen[t][a]
    BY <2>5, LearnMissingAdds
  <2>6. /\ DOMAIN seen'[t] = DOMAIN seen[t] \cup NextCall.reads
        /\ \A a \in DOMAIN seen[t] \ NextCall.reads : seen'[t][a] = seen[t][a]
    BY <2>2, <2>5
  <2>7. QED
    BY <1>1, <1>2, <2>1, <2>2, <2>3, <2>4, <2>6
<1>7. QED
  BY <1>4, <1>5, <1>6

\* A call about a thing that ends the collection.
LEMMA GivenUp ==
  ASSUME NEW t \in Things, Skip(t) \/ Answered(t) \/ NotFound(t), outcome' = "missing"
  PROVE  todo' = <<>> /\ seen' = seen /\ listed' = listed
<1>1. \A rest : ~Advance(rest)
  BY DEF Advance, Done
<1>2. NotFound(t) /\ ~Tolerates(NextCall.operation, Exists(t))
  BY <1>1 DEF Skip, Answered, NotFound
<1>3. QED
  BY <1>2 DEF NotFound

\* A page of the listing.
LEMMA PageTells ==
  ASSUME Ground, ListPage
  PROVE  \E kept \in SUBSET listed' :
           /\ UNCHANGED <<subject, world, past, changes>> /\ outcome' # "missing"
           /\ Head(todo).step = "list" /\ todo # <<>>
           /\ listed' = listed \cup kept
           /\ \E next \in {<<>>} \cup {<<List(n)>> : n \in Nat} :
                todo' = Asks(kept) \o next \o Tail(todo)
           /\ DOMAIN seen' = DOMAIN seen
           /\ \A t \in Things \cup {0} :
                IF t \notin kept THEN seen'[t] = seen[t]
                ELSE /\ Exists(t)
                     /\ DOMAIN seen'[t] = DOMAIN seen[t] \cup Program.item
                     /\ \A a \in DOMAIN seen'[t] :
                          seen'[t][a] = IF a \in Program.item THEN world[t][a] ELSE seen[t][a]
<1> DEFINE there      == {t \in DOMAIN world \ {0} : t > Head(todo).cursor}
           page(last) == {t \in there : t <= last}
           kept(last) == {t \in page(last) : Kept(world[t])}
           next(last) == IF More(there \ page(last)) THEN <<List(last)>> ELSE <<>>
<1>1. PICK last \in there \cup {0} :
        /\ listed' = listed \cup kept(last)
        /\ seen' = [t \in DOMAIN seen |-> IF t \in kept(last) THEN Learn(t, Program.item) ELSE seen[t]]
        /\ Advance(Asks(kept(last)) \o next(last) \o Tail(todo))
  BY DEF ListPage
<1>2. Running /\ Head(todo).step = "list" /\ todo # <<>>
  BY DEF ListPage, Ground, IInv, Left
<1>3. there \subseteq Things /\ last \in Nat /\ DOMAIN seen = Things \cup {0} /\ subject \in Subjects
  <2>1. there \subseteq Things
    BY DEF Ground, IInv, Accountable
  <2>2. DOMAIN seen = Things \cup {0} /\ subject \in Subjects
    BY DEF Ground, IInv, Accountable, Configured
  <2>3. last \in Nat
    <3> HIDE DEF there
    <3>1. last \in Things \cup {0}
      BY <2>1
    <3>2. QED
      BY <3>1, ThingsAssumption
  <2>4. QED
    BY <2>1, <2>2, <2>3
<1>4. next(last) \in {<<>>} \cup {<<List(n)>> : n \in Nat}
  BY <1>3
<1>5. kept(last) \subseteq there /\ kept(last) \subseteq listed'
  BY <1>1
<1> HIDE DEF next
<1>6. \A t \in kept(last) : Exists(t) /\ Program.item \subseteq DOMAIN world[t]
  BY <1>3, <1>5, ProgramReads DEF Exists, Ground, IInv, Accountable, Configured
<1> HIDE DEF kept
<1>7. \A t \in Things \cup {0} :
        seen'[t] = IF t \in kept(last) THEN Learn(t, Program.item) ELSE seen[t]
  BY <1>1, <1>3
<1>8. ASSUME NEW t \in kept(last), NEW item, item = Program.item,
             NEW known, known = Learn(t, item)
      PROVE  /\ DOMAIN known = DOMAIN seen[t] \cup item
             /\ \A a \in DOMAIN known : known[a] = IF a \in item THEN world[t][a] ELSE seen[t][a]
  <2>1. item \cap DOMAIN world[t] = item
    BY <1>6, <1>8
  <2>2. QED
    BY <1>8, <2>1, LearnAdds
<1>9. UNCHANGED <<subject, world, past, changes>> /\ outcome' # "missing"
      /\ todo' = Asks(kept(last)) \o next(last) \o Tail(todo)
  BY <1>1 DEF Advance, Done
<1>10. DOMAIN seen' = DOMAIN seen
  BY <1>1
<1>11. \A t \in Things \cup {0} :
         IF t \notin kept(last) THEN seen'[t] = seen[t]
         ELSE /\ Exists(t)
              /\ DOMAIN seen'[t] = DOMAIN seen[t] \cup Program.item
              /\ \A a \in DOMAIN seen'[t] :
                   seen'[t][a] = IF a \in Program.item THEN world[t][a] ELSE seen[t][a]
  <2>1. SUFFICES ASSUME NEW t \in Things \cup {0}, t \in kept(last)
                 PROVE  /\ DOMAIN seen'[t] = DOMAIN seen[t] \cup Program.item
                        /\ \A a \in DOMAIN seen'[t] :
                             seen'[t][a] = IF a \in Program.item THEN world[t][a] ELSE seen[t][a]
    BY <1>6, <1>7
  <2>2. seen'[t] = Learn(t, Program.item)
    BY <1>7, <2>1
  <2>3. QED
    BY <1>8, <2>1, <2>2
<1>12. QED
  BY <1>1, <1>2, <1>4, <1>5, <1>9, <1>10, <1>11

-----------------------------------------------------------------------------
(***************************************************************************)
(* The past of the account.                                                *)
(***************************************************************************)
\* Every step is one of the collection, which leaves the account alone, or a
\* change, which leaves the collection alone.
Collecting == SweepAll \/ ListPage \/ \E t \in Things : Skip(t) \/ Answered(t) \/ NotFound(t)
Changing   == Reconfigure \/ Create \/ Delete

LEMMA CollectingChangesNothing == Collecting => UNCHANGED <<subject, world, past, changes>>
  BY DEF Collecting, SweepAll, ListPage, Skip, Answered, NotFound, Advance

\* A change is a change of one thing, which existed or is new.
LEMMA ChangesOne ==
  ASSUME Ground, Changing
  PROVE  \E u \in Things \cup {0} :
           /\ Running /\ changes < MaxChanges /\ changes' = changes + 1
           /\ past' = past \cup {world'} /\ UNCHANGED <<subject, todo, listed, seen, outcome>>
           /\ OneApart(world, world', u)
           /\ u \notin DOMAIN world => ~Was(u)
           /\ u \in DOMAIN world \cap DOMAIN world' =>
                \A a \in DOMAIN world'[u] \cap Rigid : world'[u][a] = world[u][a]
<1>1. DOMAIN world \subseteq Things \cup {0}
  BY DEF Ground, IInv, Accountable
<1>2. CASE Reconfigure
  <2>1. PICK t \in DOMAIN world : \E c \in Configs(subject, t) :
          LET differ == {a \in DOMAIN c : c[a] # world[t][a]}
          IN /\ differ \cap Rigid = {} /\ \E a \in differ : differ \ Follows = {a}
             /\ Becomes([world EXCEPT ![t] = c])
    BY <1>2 DEF Reconfigure
  <2>2. PICK c \in Configs(subject, t) :
          LET differ == {a \in DOMAIN c : c[a] # world[t][a]}
          IN /\ differ \cap Rigid = {} /\ \E a \in differ : differ \ Follows = {a}
             /\ Becomes([world EXCEPT ![t] = c])
    BY <2>1
  <2> DEFINE differ == {a \in DOMAIN c : c[a] # world[t][a]}
  <2>3. PICK b : differ \ Follows = {b}
    BY <2>2
  <2>4. /\ Running /\ changes < MaxChanges /\ changes' = changes + 1
        /\ past' = past \cup {world'} /\ UNCHANGED <<subject, todo, listed, seen, outcome>>
        /\ world' = [world EXCEPT ![t] = c]
    BY <2>2 DEF Becomes
  <2>5. DOMAIN world' = DOMAIN world /\ world'[t] = c /\ \A u \in DOMAIN world \ {t} : world'[u] = world[u]
    BY <2>4
  <2>6. \A a \in DOMAIN c \ Follows : a # b => world[t][a] = c[a]
    BY <2>3
  <2>7. \A a \in DOMAIN c \cap Rigid : c[a] = world[t][a]
    BY <2>2
  <2>8. OneApart(world, world', t)
    BY <2>5, <2>6 DEF OneApart
  <2>9. QED
    BY <1>1, <2>4, <2>5, <2>7, <2>8
<1>3. CASE Create
  <2>1. PICK t \in Things : \E c \in Configs(subject, t) :
          /\ ~Was(t)
          /\ Becomes([i \in DOMAIN world \cup {t} |-> IF i = t THEN c ELSE world[i]])
    BY <1>3 DEF Create, Was
  <2>2. PICK c \in Configs(subject, t) :
          Becomes([i \in DOMAIN world \cup {t} |-> IF i = t THEN c ELSE world[i]])
    BY <2>1
  <2>3. /\ Running /\ changes < MaxChanges /\ changes' = changes + 1
        /\ past' = past \cup {world'} /\ UNCHANGED <<subject, todo, listed, seen, outcome>>
        /\ world' = [i \in DOMAIN world \cup {t} |-> IF i = t THEN c ELSE world[i]]
    BY <2>2 DEF Becomes
  <2>4. t \notin DOMAIN world
    BY <2>1 DEF Was, Ground, IInv, Accountable
  <2>5. OneApart(world, world', t)
    BY <2>3, <2>4 DEF OneApart
  <2>6. QED
    BY <2>1, <2>3, <2>4, <2>5
<1>4. CASE Delete
  <2>1. PICK t \in DOMAIN world \ {0} : Becomes([i \in DOMAIN world \ {t} |-> world[i]])
    BY <1>4 DEF Delete
  <2>2. /\ Running /\ changes < MaxChanges /\ changes' = changes + 1
        /\ past' = past \cup {world'} /\ UNCHANGED <<subject, todo, listed, seen, outcome>>
        /\ world' = [i \in DOMAIN world \ {t} |-> world[i]]
    BY <2>1 DEF Becomes
  <2>3. OneApart(world, world', t)
    BY <2>2 DEF OneApart
  <2>4. QED
    BY <1>1, <2>1, <2>2, <2>3
<1>5. QED
  BY <1>2, <1>3, <1>4 DEF Changing

LEMMA ChangingLearnsNothing ==
  ASSUME Ground, Changing
  PROVE  UNCHANGED <<subject, todo, listed, seen, outcome>> /\ past \subseteq past'
  BY ChangesOne

LEMMA FewChangesStays ==
  ASSUME Ground, FewChanges, Collecting \/ Changing
  PROVE  FewChanges'
<1>1. CASE Collecting
  BY <1>1, CollectingChangesNothing DEF FewChanges, OneApart
<1>2. CASE Changing
  <2>1. PICK u \in Things \cup {0} :
          /\ changes < MaxChanges /\ changes' = changes + 1 /\ past' = past \cup {world'}
          /\ OneApart(world, world', u)
    BY <1>2, ChangesOne
  <2>2. changes \in 0..MaxChanges /\ MaxChanges \in Nat /\ (changes = 0 => past = {world})
    BY BoundAssumption DEF FewChanges
  <2>3. changes' \in 0..MaxChanges /\ changes' # 0 /\ (changes' = 1 => changes = 0)
    BY <2>1, <2>2
  <2>4. changes' = 1 => past' = {world, world'} /\ OneApart(world, world', u) /\ world \in past'
    BY <2>1, <2>2, <2>3
  <2>5. QED
    BY <2>1, <2>3, <2>4 DEF FewChanges, OneApart
<1>3. QED
  BY <1>1, <1>2

LEMMA SupportOfKeys ==
  ASSUME subject \in Subjects, collector = "aws.kms.keys", NEW t \in Things, NEW c \in Configs(subject, t)
  PROVE  DOMAIN c = {"supports", "rotation"} /\ c.supports \in TriStates /\ c.rotation \in TriStates
  BY ConfigOfThing DEF ThingConfigs

\* What a key is when its rotation is asked for.
LEMMA SupportIsKnown ==
  ASSUME Ground, Informed, KmsOrder, NEW t \in Things, Asking(t),
         NextCall.operation = "get_key_rotation_status"
  PROVE  collector = "aws.kms.keys" /\ t \in listed /\ "supports" \in DOMAIN seen[t]
<1> DEFINE describe == Call("describe_key", {"supports"})
           rotation == Call("get_key_rotation_status", {"rotation"})
<1>1. /\ Head(todo) \in Askings /\ t \in listed /\ NextCall \in EachCalls /\ Running
      /\ subject \in Subjects /\ todo # <<>>
  BY TheAsk DEF Ground, IInv, Accountable, Left
<1>2. collector = "aws.kms.keys"
  BY <1>1, ProgramReads
<1>3. Program = KmsKeys /\ KmsKeys.each = <<describe, rotation>>
  BY <1>2 DEF Program, AwsNames, AzureNames, GcpNames, IbmNames, AwsProgram, KmsKeys, Lister
<1>4. EachCalls = {describe, rotation}
  BY <1>3, ElementsOf DEF EachCalls
<1>5. Head(todo) \in KmsSteps /\ Head(todo).step = "ask"
  BY <1>1, <1>2, HeadTailProperties DEF KmsOrder, Asking
<1>6. Head(todo).calls \in {<<describe, rotation>>, Tail(<<describe, rotation>>)}
  BY <1>3, <1>5 DEF KmsSteps
<1>7. Head(todo).calls = <<rotation>>
  <2>1. Head(<<describe, rotation>>) = describe /\ describe.operation # "get_key_rotation_status"
    BY DEF Call
  <2>2. Tail(<<describe, rotation>>) = <<rotation>>
    OBVIOUS
  <2>3. QED
    BY <1>6, <2>1, <2>2 DEF NextCall
<1>8. CallsLeft(t) = {rotation}
  <2>1. t \in Head(todo).things /\ ~(\E u \in Head(todo).things : u < t)
    <3>1. t \in Nat /\ \A u \in Head(todo).things : u \in Nat
      BY <1>1, ThingsAssumption DEF Askings, Ground, IInv, Accountable
    <3>2. QED
      BY <3>1 DEF Asking
  <2>2. QED
    BY <1>1, <1>5, <1>7, <2>1, ElementsOf DEF CallsLeft
<1>9. Told(t, describe)
  <2>1. describe # rotation
    BY DEF Call
  <2>2. QED
    BY <1>1, <1>4, <1>8, <2>1 DEF Informed, Running
<1>10. "supports" \in DOMAIN seen[t]
  BY <1>9 DEF Told, Unneeded, Call
<1>11. QED
  BY <1>1, <1>2, <1>10

\* What is known of a key's support is so in every world.
LEMMA SupportAgrees ==
  ASSUME Ground, SupportStays, collector = "aws.kms.keys", NEW t \in Things,
         "supports" \in DOMAIN seen[t], NEW w \in past, t \in DOMAIN w
  PROVE  seen[t].supports = w[t].supports
<1>1. PICK v \in past : t \in DOMAIN v /\ v[t]["supports"] = seen[t]["supports"]
  BY DEF Ground, KnownWasSo
<1>2. t # 0
  BY ThingsAssumption
<1>3. QED
  BY <1>1, <1>2 DEF SupportStays

LEMMA KmsSweepsNothing ==
  ASSUME collector = "aws.kms.keys"
  PROVE  SweepCalls = {} /\ Program = KmsKeys /\ Program.item = {}
         /\ EachCalls = {Call("describe_key", {"supports"}),
                         Call("get_key_rotation_status", {"rotation"})}
<1>1. Program = KmsKeys
  BY DEF Program, AwsNames, AzureNames, GcpNames, IbmNames, AwsProgram
<1>2. QED
  BY <1>1, ElementsOf DEF SweepCalls, EachCalls, KmsKeys, Lister

LEMMA SupportStaysSo ==
  ASSUME Ground, Ground', Informed, KmsOrder, SupportStays, Collecting \/ Changing
  PROVE  SupportStays'
<1>1. SUFFICES ASSUME collector = "aws.kms.keys" PROVE SupportStays'
  <2>1. collector' = collector
    BY CollectingChangesNothing, ChangesOne DEF collector
  <2>2. QED
    BY <1>1, <2>1 DEF SupportStays
<1>2. CASE Changing
  <2>1. PICK u \in Things \cup {0} :
          /\ past' = past \cup {world'} /\ UNCHANGED <<subject, seen>>
          /\ OneApart(world, world', u)
          /\ u \notin DOMAIN world => ~Was(u)
          /\ u \in DOMAIN world \cap DOMAIN world' =>
               \A a \in DOMAIN world'[u] \cap Rigid : world'[u][a] = world[u][a]
    BY <1>2, ChangesOne
  <2>2. world \in past /\ DOMAIN world \subseteq Things \cup {0}
        /\ \A w \in past' : DOMAIN w \subseteq Things \cup {0} /\ \A t \in DOMAIN w : w[t] \in Configs(subject, t)
    BY <2>1 DEF Ground, IInv, Accountable, Configured
  <2>3. \A v \in past : \A t \in (DOMAIN v \cap DOMAIN world') \ {0} : v[t].supports = world'[t].supports
    <3>1. SUFFICES ASSUME NEW v \in past, NEW t \in DOMAIN v, t \in DOMAIN world', t # 0
                   PROVE  v[t].supports = world'[t].supports
      OBVIOUS
    <3>2. t \in Things /\ world' \in past'
      BY <2>1, <2>2, <3>1
    <3>3. t \in DOMAIN world
      BY <2>1, <3>1, <3>2 DEF OneApart, Was
    <3>4. v[t].supports = world[t].supports
      BY <1>1, <2>2, <3>1, <3>3 DEF SupportStays
    <3>5. CASE t # u
      BY <2>1, <3>2, <3>3, <3>4, <3>5 DEF OneApart
    <3>6. CASE t = u
      <4>1. "supports" \in DOMAIN world'[t]
        BY <1>1, <2>2, <3>1, <3>2, SupportOfKeys DEF Ground, IInv, Accountable
      <4>2. world'[t]["supports"] = world[t]["supports"]
        BY <2>1, <3>1, <3>3, <3>6, <4>1 DEF Rigid
      <4>3. QED
        BY <3>4, <4>2
    <3>7. QED
      BY <3>5, <3>6
  <2>4. \A v, w \in past' : \A t \in (DOMAIN v \cap DOMAIN w) \ {0} : v[t].supports = w[t].supports
    BY <1>1, <2>1, <2>3 DEF SupportStays
  <2>5. ASSUME NEW t \in Things, "rotation" \in DOMAIN seen[t], NEW w \in past', t \in DOMAIN w
        PROVE  w[t].supports = "yes"
    <3>1. PICK v \in past : t \in DOMAIN v
      BY <2>5 DEF Ground, Configured, Was
    <3>2. v[t].supports = "yes" /\ t # 0 /\ v \in past'
      BY <1>1, <2>1, <2>5, <3>1, ThingsAssumption DEF SupportStays
    <3>3. QED
      BY <2>4, <2>5, <3>1, <3>2
  <2>6. QED
    BY <2>1, <2>4, <2>5 DEF SupportStays
<1>3. CASE Collecting
  <2>1. UNCHANGED <<subject, world, past, changes>>
    BY <1>3, CollectingChangesNothing
  <2>2. SUFFICES ASSUME NEW t \in Things, "rotation" \in DOMAIN seen'[t], "rotation" \notin DOMAIN seen[t]
                 PROVE  \A w \in past : t \in DOMAIN w => w[t].supports = "yes"
    BY <2>1 DEF SupportStays, collector
  <2>3. ~SweepAll
    BY <1>1, NextStep, KmsSweepsNothing
    DEF SweepAll, Ground, StepSet, Sweepings, Listings, Askings
  <2>4. ~ListPage
    BY <1>1, <2>2, PageTells, KmsSweepsNothing
  <2>5. PICK u \in Things : Skip(u) \/ Answered(u) \/ NotFound(u)
    BY <1>3, <2>3, <2>4 DEF Collecting
  <2>6. outcome' # "missing"
    BY <2>2, <2>5 DEF Skip, Answered, NotFound, Advance, Done
  <2>7. /\ Asking(u) /\ NextCall \in EachCalls /\ u = t
        /\ Needed(t, NextCall.operation) /\ "rotation" \in NextCall.reads
    BY <2>2, <2>5, <2>6, CallTells
  <2>8. NextCall.operation = "get_key_rotation_status"
    BY <1>1, <2>7, KmsSweepsNothing DEF Call
  <2>9. "supports" \in DOMAIN seen[t] /\ seen[t].supports = "yes"
    BY <2>7, <2>8, SupportIsKnown DEF Needed
  <2>10. QED
    BY <1>1, <2>9, SupportAgrees
<1>4. QED
  BY <1>2, <1>3

-----------------------------------------------------------------------------
(***************************************************************************)
(* The calls that are left.                                                *)
(***************************************************************************)
LEMMA KmsOrderStays ==
  ASSUME Ground, KmsOrder, Collecting \/ Changing
  PROVE  KmsOrder'
<1>1. collector' = collector
  BY CollectingChangesNothing, ChangesOne DEF collector
<1>2. SUFFICES ASSUME collector = "aws.kms.keys" PROVE todo' \in Seq(KmsSteps)
  BY <1>1 DEF KmsOrder
<1>3. todo \in Seq(KmsSteps) /\ Program = KmsKeys
  BY <1>2, KmsSweepsNothing DEF KmsOrder
<1>4. CASE Changing
  BY <1>3, <1>4, ChangingLearnsNothing
<1>5. ASSUME NEW t \in Things, Skip(t) \/ Answered(t) \/ NotFound(t), outcome' = "missing"
      PROVE  todo' \in Seq(KmsSteps)
  <2>1. todo' = <<>>
    BY <1>5, GivenUp
  <2>2. QED
    BY <2>1
<1>6. ASSUME todo # <<>> PROVE Head(todo) \in KmsSteps /\ Tail(todo) \in Seq(KmsSteps)
  BY <1>3, <1>6, HeadTailProperties
<1>7. ASSUME NEW things \in SUBSET Things PROVE Asks(things) \in Seq(KmsSteps)
  <2>1. Ask(things, KmsKeys.each) \in KmsSteps
    BY DEF Ask, KmsSteps
  <2>2. QED
    BY <1>3, <2>1 DEF Asks
<1>8. CASE ListPage
  <2>1. PICK kept \in SUBSET listed' :
          /\ listed' = listed \cup kept /\ todo # <<>> /\ \A t \in Things \cup {0} : t \in kept => Exists(t)
          /\ \E next \in {<<>>} \cup {<<List(n)>> : n \in Nat} :
               todo' = Asks(kept) \o next \o Tail(todo)
    BY <1>8, PageTells
  <2>2. PICK next \in {<<>>} \cup {<<List(n)>> : n \in Nat} :
          todo' = Asks(kept) \o next \o Tail(todo)
    BY <2>1
  <2>3. next \in Seq(KmsSteps)
    <3>1. \A n \in Nat : List(n) \in KmsSteps
      BY DEF List, KmsSteps
    <3>2. QED
      BY <2>2, <3>1, NextPage
  <2>4. kept \in SUBSET Things
    BY <1>8, <2>1, ListPageKeeps DEF Ground, IInv, Accountable
  <2>5. Asks(kept) \o next \in Seq(KmsSteps)
    BY <1>7, <2>3, <2>4, Joined
  <2>6. QED
    BY <1>6, <2>1, <2>2, <2>5, Joined
<1>9. ASSUME NEW t \in Things, Skip(t) \/ Answered(t) \/ NotFound(t), outcome' # "missing"
      PROVE  todo' \in Seq(KmsSteps)
  <2> DEFINE ask   == Head(todo)
             again == IF Len(ask.calls) > 1 THEN <<Ask(ask.things, Tail(ask.calls))>>
                      ELSE Asks(ask.things \ {t})
  <2>1. Asking(t) /\ todo' = AfterCall(t)
    BY <1>9, CallTells
  <2>2. todo # <<>> /\ ask.step = "ask"
    BY <2>1 DEF Asking, Ground, IInv, Left
  <2>3. ask.things \in SUBSET Things /\ ask.calls \in {KmsKeys.each, Tail(KmsKeys.each)}
    BY <1>6, <2>2 DEF KmsSteps
  <2>4. Len(ask.calls) > 1 => Tail(ask.calls) = Tail(KmsKeys.each)
    <3> DEFINE describe == Call("describe_key", {"supports"})
               rotation == Call("get_key_rotation_status", {"rotation"})
    <3>1. KmsKeys.each = <<describe, rotation>>
      BY DEF KmsKeys, Lister
    <3> HIDE DEF describe, rotation
    <3>2. Len(Tail(KmsKeys.each)) = 1
      BY <3>1
    <3>3. ASSUME NEW calls \in {KmsKeys.each, Tail(KmsKeys.each)}, Len(calls) > 1
          PROVE  Tail(calls) = Tail(KmsKeys.each)
      BY <3>2, <3>3
    <3>4. QED
      BY <2>3, <3>3
  <2>5. again \in Seq(KmsSteps)
    <3>1. CASE Len(ask.calls) > 1
      <4>1. Ask(ask.things, Tail(KmsKeys.each)) \in KmsSteps
        BY <2>3 DEF Ask, KmsSteps
      <4>2. QED
        BY <2>4, <3>1, <4>1
    <3>2. CASE ~(Len(ask.calls) > 1)
      BY <1>7, <2>3, <3>2
    <3>3. QED
      BY <3>1, <3>2
  <2>6. todo' = again \o Tail(todo)
    BY <2>1 DEF AfterCall
  <2> HIDE DEF again
  <2>7. QED
    BY <1>6, <2>2, <2>5, <2>6, Joined
<1>10. CASE SweepAll
  BY <1>6, <1>10 DEF SweepAll, Advance, Ground, IInv, Left
<1>11. QED
  BY <1>4, <1>5, <1>8, <1>9, <1>10 DEF Collecting

LEMMA UnlistedStays ==
  ASSUME Ground, Unlisted, Collecting \/ Changing
  PROVE  Unlisted'
<1>1. Program' = Program /\ Sweepings' = Sweepings
  BY CollectingChangesNothing, ChangesOne DEF Program, collector, Sweepings, SweepCalls
<1>2. SUFFICES ASSUME ~Program.lists PROVE listed' = {} /\ todo' \in Seq(Sweepings)
  BY <1>1 DEF Unlisted
<1>3. listed = {} /\ todo \in Seq(Sweepings)
  BY <1>2 DEF Unlisted
<1>4. ASSUME Running PROVE Head(todo).step = "sweep" /\ Tail(todo) \in Seq(Sweepings)
  <2>1. todo # <<>>
    BY <1>4 DEF Ground, IInv, Left
  <2>2. Head(todo) \in Sweepings /\ Tail(todo) \in Seq(Sweepings)
    BY <1>3, <2>1, HeadTailProperties
  <2>3. QED
    BY <2>2 DEF Sweepings
<1>5. CASE Changing
  BY <1>3, <1>5, ChangingLearnsNothing
<1>6. CASE SweepAll
  BY <1>3, <1>4, <1>6 DEF SweepAll, Advance
<1>7. CASE ListPage
  BY <1>4, <1>7 DEF ListPage
<1>8. CASE \E t \in Things : Skip(t) \/ Answered(t) \/ NotFound(t)
  BY <1>4, <1>8 DEF Skip, Answered, NotFound, Asking
<1>9. QED
  BY <1>5, <1>6, <1>7, <1>8 DEF Collecting

\* Nothing that is known is forgotten.
LEMMA KnownStaysKnown ==
  ASSUME Ground, Collecting, NEW t \in Things \cup {0}
  PROVE  DOMAIN seen[t] \subseteq DOMAIN seen'[t] /\ DOMAIN seen' = DOMAIN seen
<1>1. CASE SweepAll
  <2> DEFINE call == Head(todo).call
  <2>1. DOMAIN seen = Things \cup {0}
    BY DEF Ground, Configured
  <2>2. CASE NoSuch(call.operation, world[0])
    <3>1. seen' = [seen EXCEPT ![0] = LearnMissing(0, call.reads)]
      BY <1>1, <2>2 DEF SweepAll
    <3>2. \A aspects : DOMAIN seen[0] \subseteq DOMAIN LearnMissing(0, aspects)
      BY DEF LearnMissing, Added
    <3>3. seen'[t] = IF t = 0 THEN LearnMissing(0, call.reads) ELSE seen[t]
      BY <2>1, <3>1
    <3>4. QED
      BY <3>1, <3>2, <3>3
  <2>3. CASE ~NoSuch(call.operation, world[0])
    <3>1. seen' = [u \in DOMAIN seen |-> IF Exists(u) THEN Learn(u, call.reads) ELSE seen[u]]
      BY <1>1, <2>3 DEF SweepAll
    <3>2. \A aspects : DOMAIN seen[t] \subseteq DOMAIN Learn(t, aspects)
      BY DEF Learn, Added
    <3>3. seen'[t] = IF Exists(t) THEN Learn(t, call.reads) ELSE seen[t]
      BY <2>1, <3>1
    <3>4. QED
      BY <3>1, <3>2, <3>3
  <2>4. QED
    BY <2>2, <2>3
<1>2. CASE ListPage
  BY <1>2, PageTells
<1>3. CASE \E u \in Things : Skip(u) \/ Answered(u) \/ NotFound(u)
  <2>1. PICK u \in Things : Skip(u) \/ Answered(u) \/ NotFound(u)
    BY <1>3
  <2>2. CASE outcome' # "missing"
    BY <2>1, <2>2, CallTells
  <2>3. CASE outcome' = "missing"
    BY <2>1, <2>3, GivenUp
  <2>4. QED
    BY <2>2, <2>3
<1>4. QED
  BY <1>1, <1>2, <1>3 DEF Collecting

LEMMA HeadOfSum ==
  ASSUME NEW R, NEW p \in Seq(R), p # <<>>, NEW q \in Seq(R)
  PROVE  p \o q # <<>> /\ Head(p \o q) = Head(p)
<1>1. /\ p \o q \in Seq(R) /\ Len(p \o q) = Len(p) + Len(q)
      /\ \A i \in 1..Len(p) + Len(q) :
           (p \o q)[i] = IF i <= Len(p) THEN p[i] ELSE q[i - Len(p)]
      /\ Len(p) \in Nat \ {0} /\ Len(q) \in Nat
  BY ConcatProperties, LenProperties, EmptySeq
<1>2. 1 \in 1..Len(p) + Len(q) /\ 1 <= Len(p)
  BY <1>1
<1>3. p \o q # <<>>
  BY <1>1, EmptySeq
<1>4. QED
  BY <1>1, <1>2, <1>3, HeadTailProperties

\* What is left after the next step is still left after it.
LEMMA RestIsLeft ==
  ASSUME Ground, Collecting, ~SweepAll, outcome' # "missing"
  PROVE  Head(todo).step # "sweep" /\ Elements(Tail(todo)) \subseteq Elements(todo')
<1> DEFINE S(things) == StepSet \cup {Ask(things, Program.each)} \cup {List(n) : n \in Nat}
<1>1. ASSUME Running PROVE \A things : Tail(todo) \in Seq(S(things))
  BY <1>1, NextStep DEF Ground
<1>2. ASSUME NEW things, NEW R, Ask(things, Program.each) \in R PROVE Asks(things) \in Seq(R)
  BY <1>2 DEF Asks
<1>3. CASE ListPage
  <2>1. PICK kept : \E next \in {<<>>} \cup {<<List(n)>> : n \in Nat} :
          Head(todo).step = "list" /\ todo' = Asks(kept) \o next \o Tail(todo)
    BY <1>3, PageTells
  <2>2. PICK next \in {<<>>} \cup {<<List(n)>> : n \in Nat} :
          Head(todo).step = "list" /\ todo' = Asks(kept) \o next \o Tail(todo)
    BY <2>1
  <2>3. next \in Seq(S(kept))
    BY <2>2, NextPage
  <2>4. Tail(todo) \in Seq(S(kept)) /\ Asks(kept) \in Seq(S(kept))
    BY <1>1, <1>2, <1>3 DEF ListPage
  <2> HIDE DEF S
  <2>5. Asks(kept) \o next \in Seq(S(kept))
    BY <2>3, <2>4, Joined
  <2> DEFINE p == Asks(kept) \o next
             q == Tail(todo)
             R == S(kept)
  <2>6. p \in Seq(R) /\ q \in Seq(R) /\ todo' = p \o q
    BY <2>2, <2>4, <2>5
  <2> HIDE DEF p, q, R
  <2>7. Elements(p \o q) = Elements(p) \cup Elements(q)
    BY <2>6, ElementsJoin
  <2>8. QED
    BY <2>2, <2>6, <2>7 DEF q
<1>4. CASE \E t \in Things : Skip(t) \/ Answered(t) \/ NotFound(t)
  <2>1. PICK t \in Things : Skip(t) \/ Answered(t) \/ NotFound(t)
    BY <1>4
  <2> DEFINE ask    == Head(todo)
             s      == Ask(ask.things, Tail(ask.calls))
             rest   == ask.things \ {t}
             again  == IF Len(ask.calls) > 1 THEN <<s>> ELSE Asks(rest)
             R      == S(rest) \cup {s}
  <2>2. Running /\ ask.step = "ask" /\ todo' = again \o Tail(todo)
    BY <2>1, CallTells DEF AfterCall, Asking
  <2>3. Tail(todo) \in Seq(R)
    BY <2>2, NextStep DEF Ground
  <2>4. again \in Seq(R)
    <3>1. Ask(rest, Program.each) \in R /\ s \in R
      OBVIOUS
    <3> HIDE DEF R, s, rest
    <3>2. Asks(rest) \in Seq(R)
      BY <1>2, <3>1
    <3>3. QED
      BY <3>1, <3>2
  <2> HIDE DEF again, R
  <2>5. Elements(again \o Tail(todo)) = Elements(again) \cup Elements(Tail(todo))
    BY <2>3, <2>4, ElementsJoin
  <2>6. QED
    BY <2>2, <2>5
<1>5. QED
  BY <1>3, <1>4 DEF Collecting

LEMMA SweptStays ==
  ASSUME Ground, Ground', Swept, Collecting \/ Changing
  PROVE  Swept'
<1>1. SUFFICES ASSUME outcome' # "missing", NEW c \in SweepCalls, NEW t \in Things \cup {0},
                      NEW a \in c.reads, t = 0 \/ collector \notin Asker, Always(t, a)'
               PROVE  Sweep(c) \in Elements(todo') \/ a \in DOMAIN seen'[t]
  <2>1. UNCHANGED <<SweepCalls, collector>>
    BY CollectingChangesNothing, ChangesOne DEF SweepCalls, Program, collector
  <2>2. QED
    BY <2>1 DEF Swept, Elements
<1>2. Running
  BY DEF Collecting, Changing, SweepAll, ListPage, Skip, Answered, NotFound, Asking,
     Reconfigure, Create, Delete, Becomes
<1>3. Always(t, a) /\ t \in DOMAIN world /\ a \in DOMAIN world[t]
  <2>1. past \subseteq past' /\ world \in past
    BY CollectingChangesNothing, ChangingLearnsNothing DEF Ground, IInv, Accountable
  <2>2. QED
    BY <1>1, <2>1 DEF Always
<1>4. todo # <<>> /\ todo \in Seq(StepSet) /\ Tail(todo) \in Seq(StepSet)
      /\ Elements(todo) = {Head(todo)} \cup Elements(Tail(todo))
  BY <1>2, NextStep, ElementsSplit DEF Ground, IInv, Left
<1>5. Sweep(c) \in Elements(todo) \/ a \in DOMAIN seen[t]
  BY <1>1, <1>2, <1>3 DEF Swept, Running
<1>6. CASE Changing
  BY <1>5, <1>6, ChangingLearnsNothing
<1>7. CASE Collecting /\ a \in DOMAIN seen[t]
  BY <1>7, KnownStaysKnown
<1>8. CASE Sweep(c) \in Elements(todo) /\ SweepAll
  <2> DEFINE call == Head(todo).call
  <2>1. todo' = Tail(todo) /\ DOMAIN seen = Things \cup {0}
    BY <1>8 DEF SweepAll, Advance, Ground, Configured
  <2>2. SUFFICES ASSUME Head(todo) = Sweep(c) PROVE a \in DOMAIN seen'[t]
    BY <1>4, <1>8, <2>1
  <2>3. call = c
    BY <2>2 DEF Sweep
  <2>4. CASE NoSuch(call.operation, world[0])
    <3>1. seen' = [seen EXCEPT ![0] = LearnMissing(0, call.reads)]
      BY <1>8, <2>4 DEF SweepAll
    <3>2. \A aspects : a \in aspects => a \in DOMAIN LearnMissing(0, aspects)
      BY DEF LearnMissing, Added
    <3>3. t = 0
      <4>1. collector \in Asker
        BY <2>3, <2>4, OthersAreFirm DEF Ground, IInv, Accountable
      <4>2. QED
        BY <1>1, <4>1
    <3>4. seen'[t] = LearnMissing(0, c.reads)
      BY <2>1, <2>3, <3>1, <3>3
    <3>5. QED
      BY <3>2, <3>4
  <2>5. CASE ~NoSuch(call.operation, world[0])
    <3>1. seen' = [u \in DOMAIN seen |-> IF Exists(u) THEN Learn(u, call.reads) ELSE seen[u]]
      BY <1>8, <2>5 DEF SweepAll
    <3>2. \A aspects : a \in aspects => a \in DOMAIN Learn(t, aspects)
      BY <1>3 DEF Learn, Added
    <3>3. seen'[t] = Learn(t, c.reads)
      BY <1>3, <2>1, <2>3, <3>1 DEF Exists
    <3>4. QED
      BY <3>2, <3>3
  <2>6. QED
    BY <2>4, <2>5
<1>9. CASE Sweep(c) \in Elements(todo) /\ ~SweepAll /\ Collecting
  <2>1. Head(todo).step # "sweep" /\ Elements(Tail(todo)) \subseteq Elements(todo')
    BY <1>1, <1>4, <1>9, RestIsLeft
  <2>2. QED
    BY <1>4, <1>9, <2>1 DEF Sweep
<1>10. QED
  BY <1>5, <1>6, <1>7, <1>8, <1>9

-----------------------------------------------------------------------------
(***************************************************************************)
(* What the answers tell.                                                  *)
(***************************************************************************)
\* A program of which an answer tells all of a thing or nothing.
TellsAll(k, p) ==
  /\ Elements(p.before) = {} /\ Elements(p.after) = {}
  /\ \A config \in ThingConfigs(k) : \A aspects \in {p.item} \cup {c.reads : c \in Elements(p.each)} :
       aspects = {} \/ DOMAIN config \subseteq aspects

LEMMA AtOnceTellsAll ==
  ASSUME subject \in Subjects, collector \in AtOnce
  PROVE  /\ SweepCalls = {}
         /\ \A t \in Things : \A config \in Configs(subject, t) :
              \A aspects \in {Program.item} \cup {c.reads : c \in EachCalls} :
                aspects = {} \/ DOMAIN config \subseteq aspects
<1>1. TellsAll("azure.network.security_groups", NetworkSecurityGroups)
  BY ElementsOf DEF TellsAll, NetworkSecurityGroups, Lister, ThingConfigs
<1>2. TellsAll("azure.keyvault.vaults", KeyVaults)
  BY ElementsOf DEF TellsAll, KeyVaults, Lister, ThingConfigs
<1>3. TellsAll("gcp.compute.firewalls", ComputeFirewalls)
  BY ElementsOf DEF TellsAll, ComputeFirewalls, Lister, ThingConfigs
<1>4. TellsAll("gcp.kms.keys", GcpKmsKeys)
  BY ElementsOf DEF TellsAll, GcpKmsKeys, Lister, Call, ThingConfigs
<1>5. /\ collector = "azure.network.security_groups" => Program = NetworkSecurityGroups
      /\ collector = "azure.keyvault.vaults" => Program = KeyVaults
      /\ collector = "gcp.compute.firewalls" => Program = ComputeFirewalls
      /\ collector = "gcp.kms.keys" => Program = GcpKmsKeys
  BY DEF Program, AwsNames, AzureNames, GcpNames, IbmNames, AzureProgram, GcpProgram
<1>6. TellsAll(collector, Program)
  BY <1>1, <1>2, <1>3, <1>4, <1>5 DEF AtOnce
<1>7. QED
  BY <1>6, ConfigOfThing DEF TellsAll, SweepCalls, EachCalls

LEMMA WholeStays ==
  ASSUME Ground, Whole, Collecting \/ Changing
  PROVE  Whole'
<1>1. SUFFICES ASSUME collector \in AtOnce, NEW t \in Things, DOMAIN seen'[t] # {}
               PROVE  \E w \in past' : t \in DOMAIN w /\ Agrees(seen'[t], w[t])
  <2>1. collector' = collector
    BY CollectingChangesNothing, ChangesOne DEF collector
  <2>2. QED
    BY <1>1, <2>1 DEF Whole, Agrees
<1>2. past \subseteq past' /\ world \in past /\ subject \in Subjects
      /\ \A w \in past : \A u \in DOMAIN w : w[u] \in Configs(subject, u)
  BY CollectingChangesNothing, ChangingLearnsNothing DEF Ground, IInv, Accountable, Configured
<1>3. ASSUME DOMAIN seen'[t] = DOMAIN seen[t], \A a \in DOMAIN seen[t] : seen'[t][a] = seen[t][a]
      PROVE  \E w \in past' : t \in DOMAIN w /\ Agrees(seen'[t], w[t])
  BY <1>1, <1>2, <1>3 DEF Whole, Agrees
<1>4. ASSUME Exists(t), NEW aspects \in {Program.item} \cup {c.reads : c \in EachCalls}, aspects # {},
             aspects \subseteq DOMAIN seen'[t], \A a \in aspects : seen'[t][a] = world[t][a]
      PROVE  \E w \in past' : t \in DOMAIN w /\ Agrees(seen'[t], w[t])
  <2>1. world[t] \in Configs(subject, t)
    BY <1>2, <1>4 DEF Exists
  <2>2. DOMAIN world[t] \subseteq aspects
    BY <1>1, <1>2, <1>4, <2>1, AtOnceTellsAll
  <2>3. QED
    BY <1>2, <1>4, <2>2 DEF Agrees, Exists
<1>5. CASE Changing
  BY <1>3, <1>5, ChangingLearnsNothing
<1>6. ~SweepAll
  BY <1>1, <1>2, NextStep, AtOnceTellsAll DEF SweepAll, Ground, StepSet, Sweepings, Listings, Askings
<1>7. CASE ListPage
  <2>1. PICK kept \in SUBSET listed' :
          \A u \in Things \cup {0} :
            IF u \notin kept THEN seen'[u] = seen[u]
            ELSE /\ Exists(u)
                 /\ DOMAIN seen'[u] = DOMAIN seen[u] \cup Program.item
                 /\ \A a \in DOMAIN seen'[u] :
                      seen'[u][a] = IF a \in Program.item THEN world[u][a] ELSE seen[u][a]
    BY <1>7, PageTells
  <2>2. CASE t \notin kept
    BY <1>3, <2>1, <2>2
  <2>3. CASE t \in kept /\ Program.item = {}
    BY <1>3, <2>1, <2>3
  <2>4. CASE t \in kept /\ Program.item # {}
    BY <1>4, <2>1, <2>4
  <2>5. QED
    BY <2>2, <2>3, <2>4
<1>8. CASE \E u \in Things : Skip(u) \/ Answered(u) \/ NotFound(u)
  <2>1. PICK u \in Things : Skip(u) \/ Answered(u) \/ NotFound(u)
    BY <1>8
  <2>2. CASE outcome' = "missing"
    BY <1>3, <2>1, <2>2, GivenUp
  <2>3. CASE outcome' # "missing" /\ seen'[t] = seen[t]
    BY <1>3, <2>3
  <2>4. CASE outcome' # "missing" /\ seen'[t] # seen[t]
    <3>1. /\ t = u /\ Answered(t) /\ Exists(t) /\ NextCall \in EachCalls
          /\ DOMAIN seen'[t] = DOMAIN seen[t] \cup NextCall.reads
          /\ \A a \in DOMAIN seen[t] \ NextCall.reads : seen'[t][a] = seen[t][a]
          /\ \A a \in NextCall.reads : seen'[t][a] = world[t][a]
      BY <1>1, <2>1, <2>4, CallTells DEF AtOnce, Asker
    <3>2. CASE NextCall.reads = {}
      BY <1>3, <3>1, <3>2
    <3>3. CASE NextCall.reads # {}
      BY <1>4, <3>1, <3>3
    <3>4. QED
      BY <3>2, <3>3
  <2>5. QED
    BY <2>2, <2>3, <2>4
<1>9. QED
  BY <1>5, <1>6, <1>7, <1>8 DEF Collecting

\* The listing of users says once what the report says of a user.
LEMMA ReportStays ==
  ASSUME Ground, Collecting, ~ListPage, collector = "ibm.iam.identity.users", NEW t \in Things,
         "report" \in DOMAIN seen[t]
  PROVE  seen'[t].report = seen[t].report
<1>1. Program = IamUsers
  BY DEF Program, AwsNames, AzureNames, GcpNames, IbmNames, IbmProgram
<1>2. SweepCalls = {} /\ EachCalls = {Call("get_mfa_status", {"status"})}
  BY <1>1, ElementsOf DEF SweepCalls, EachCalls, IamUsers, Lister
<1>3. ~SweepAll
  BY <1>2, NextStep DEF SweepAll, Ground, StepSet, Sweepings, Listings, Askings
<1>4. PICK u \in Things : Skip(u) \/ Answered(u) \/ NotFound(u)
  BY <1>3 DEF Collecting
<1>5. CASE outcome' = "missing"
  BY <1>4, <1>5, GivenUp
<1>6. CASE outcome' # "missing"
  <2>1. NextCall \in EachCalls
    BY <1>4, <1>6, CallTells
  <2>2. "report" \notin NextCall.reads
    BY <1>2, <2>1 DEF Call
  <2>3. seen'[t]["report"] = seen[t]["report"]
    BY <1>4, <1>6, <2>2, CallTells
  <2>4. QED
    BY <2>3
<1>7. QED
  BY <1>5, <1>6

LEMMA ToldStays ==
  ASSUME Ground, Ground', SupportStays, SupportStays', Collecting,
         NEW t \in Things, NEW c, Told(t, c),
         collector = "ibm.iam.identity.users" /\ "report" \in DOMAIN seen[t]
           => seen'[t].report = seen[t].report
  PROVE  Told(t, c)'
<1>1. DOMAIN seen[t] \subseteq DOMAIN seen'[t] /\ collector' = collector /\ past' = past
  BY KnownStaysKnown, CollectingChangesNothing DEF collector
<1>2. CASE c.reads \subseteq DOMAIN seen[t]
  BY <1>1, <1>2 DEF Told
<1>3. CASE /\ collector = "aws.kms.keys" /\ c.operation = "get_key_rotation_status"
           /\ "supports" \in DOMAIN seen[t] /\ seen[t].supports # "yes"
  <2>1. PICK w \in past : t \in DOMAIN w
    BY <1>3 DEF Ground, Configured, Was
  <2>2. seen[t].supports = w[t].supports
    BY <1>3, <2>1, SupportAgrees
  <2>3. PICK v \in past : t \in DOMAIN v /\ v[t]["supports"] = seen'[t]["supports"]
    BY <1>1, <1>3 DEF Ground, KnownWasSo
  <2>4. v[t].supports = w[t].supports
    BY <1>3, <2>1, <2>3, ThingsAssumption DEF SupportStays
  <2>5. seen'[t].supports # "yes"
    BY <1>3, <2>2, <2>3, <2>4
  <2>6. QED
    BY <1>1, <1>3, <2>5 DEF Told, Unneeded
<1>4. CASE /\ collector = "ibm.iam.identity.users" /\ c.operation = "get_mfa_status"
           /\ "report" \in DOMAIN seen[t] /\ IbmTri(seen[t].report) # "unknown"
  BY <1>1, <1>4 DEF Told, Unneeded
<1>5. QED
  BY <1>2, <1>3, <1>4 DEF Told, Unneeded

LEMMA InformedStays ==
  ASSUME Ground, Ground', Informed, KmsOrder, SupportStays, SupportStays', Collecting \/ Changing
  PROVE  Informed'
<1>1. Program' = Program /\ EachCalls' = EachCalls /\ subject' = subject /\ subject \in Subjects
      /\ listed \subseteq Things /\ listed' \subseteq Things
  BY CollectingChangesNothing, ChangingLearnsNothing
  DEF Program, EachCalls, collector, Ground, IInv, Accountable
<1>2. CASE Changing
  <2>1. UNCHANGED <<subject, todo, listed, seen, outcome>>
    BY <1>2, ChangingLearnsNothing
  <2>2. \A t : CallsLeft(t)' = CallsLeft(t)
    BY <1>1, <2>1 DEF CallsLeft
  <2>3. \A t, c : Told(t, c) => Told(t, c)'
    BY <2>1 DEF Told, Unneeded, collector
  <2>4. QED
    BY <1>1, <2>1, <2>2, <2>3 DEF Informed
<1>3. CASE SweepAll
  <2>1. Running /\ Head(todo).step = "sweep" /\ listed' = listed
    BY <1>3 DEF SweepAll
  <2>2. \A t \in listed : \A c \in EachCalls : Told(t, c)
    BY <2>1 DEF Informed, CallsLeft, Running
  <2>3. \A t \in Things : DOMAIN seen[t] \subseteq DOMAIN seen'[t]
    BY <1>3, KnownStaysKnown DEF Collecting
  <2>4. \A t \in listed : \A c \in EachCalls : Told(t, c)'
    <3>1. SUFFICES ASSUME NEW t \in listed, NEW c \in EachCalls PROVE Told(t, c)'
      OBVIOUS
    <3>2. ~ListPage
      BY <2>1 DEF ListPage
    <3>3. collector = "ibm.iam.identity.users" /\ "report" \in DOMAIN seen[t]
            => seen'[t].report = seen[t].report
      BY <1>1, <1>3, <3>2, ReportStays DEF Collecting
    <3>4. QED
      BY <1>1, <1>3, <2>2, <3>3, ToldStays DEF Collecting
  <2>5. QED
    BY <1>1, <2>1, <2>3, <2>4 DEF Informed
<1>4. CASE ListPage
  <2>1. PICK kept \in SUBSET listed' :
          /\ Head(todo).step = "list" /\ todo # <<>> /\ listed' = listed \cup kept /\ outcome' # "missing"
          /\ \E next \in {<<>>} \cup {<<List(n)>> : n \in Nat} :
               todo' = Asks(kept) \o next \o Tail(todo)
          /\ \A t \in Things \cup {0} :
               IF t \notin kept THEN seen'[t] = seen[t]
               ELSE DOMAIN seen'[t] = DOMAIN seen[t] \cup Program.item
    BY <1>4, PageTells
  <2>2. Running
    BY <1>4 DEF ListPage
  <2>3. \A t \in listed' : Program.item \subseteq DOMAIN seen'[t]
    BY <1>1, <2>1 DEF Informed
  <2>4. ASSUME NEW t \in listed', t \notin kept, NEW c \in EachCalls
        PROVE  Told(t, c)'
    <3>1. t \in listed /\ t \in Things /\ seen'[t] = seen[t]
      BY <1>1, <2>1, <2>4
    <3>2. Told(t, c)
      BY <2>1, <2>2, <2>4, <3>1 DEF Informed, CallsLeft, Running
    <3>3. QED
      BY <1>1, <3>1, <3>2 DEF Told, Unneeded, collector
  <2>5. ASSUME NEW t \in kept, NEW c \in EachCalls
        PROVE  c \in CallsLeft(t)'
    <3> DEFINE ask == Ask(kept, Program.each)
    <3>1. Asks(kept) = <<ask>>
      BY <2>5, ElementsOf DEF Asks, EachCalls
    <3>2. PICK next \in {<<>>} \cup {<<List(n)>> : n \in Nat} : todo' = <<ask>> \o next \o Tail(todo)
      BY <2>1, <3>1
    <3>3. todo' # <<>> /\ Head(todo') = ask
      <4>1. Tail(todo) \in Seq(StepSet)
        BY <2>2, NextStep DEF Ground
      <4> DEFINE R == StepSet \cup {List(n) : n \in Nat} \cup {ask}
      <4>2. next \in Seq(R)
        BY <3>2, NextPage
      <4>3. Tail(todo) \in Seq(R) /\ <<ask>> \in Seq(R)
        BY <4>1
      <4> HIDE DEF R, ask
      <4>4. <<ask>> \o next \in Seq(R)
        BY <4>2, <4>3, Joined
      <4>5. <<ask>> \o next # <<>> /\ Head(<<ask>> \o next) = ask
        BY <4>2, HeadOfJoin
      <4>6. QED
        BY <3>2, <4>3, <4>4, <4>5, HeadOfSum
    <3>4. CallsLeft(t)' = EachCalls
      BY <1>1, <2>5, <3>3 DEF CallsLeft, Ask, EachCalls
    <3>5. QED
      BY <2>5, <3>4
  <2>6. QED
    BY <1>1, <2>1, <2>3, <2>4, <2>5 DEF Informed
<1>5. ASSUME NEW t \in Things, Skip(t) \/ Answered(t) \/ NotFound(t) PROVE Informed'
  <2>1. CASE outcome' = "missing"
    <3>1. seen' = seen /\ listed' = listed
      BY <1>5, <2>1, GivenUp
    <3>2. QED
      BY <1>1, <2>1, <3>1 DEF Informed
  <2>2. CASE outcome' # "missing"
    <3>1. /\ listed' = listed /\ Asking(t) /\ t \in listed /\ NextCall \in EachCalls
          /\ todo' = AfterCall(t) /\ \A u \in Things \cup {0} : u # t => seen'[u] = seen[u]
          /\ \/ ~Needed(t, NextCall.operation) /\ seen'[t] = seen[t]
             \/ DOMAIN seen'[t] = DOMAIN seen[t] \cup NextCall.reads
      BY <1>5, <2>2, CallTells
    <3>2. \A u \in Things : DOMAIN seen[u] \subseteq DOMAIN seen'[u]
      BY <1>5, KnownStaysKnown DEF Collecting
    <3>3. ASSUME NEW c, c = NextCall PROVE Told(t, c)'
      <4>1. CASE DOMAIN seen'[t] = DOMAIN seen[t] \cup NextCall.reads
        BY <3>3, <4>1 DEF Told
      <4>2. CASE ~Needed(t, NextCall.operation) /\ seen'[t] = seen[t]
        <5>1. CASE NextCall.operation = "get_key_rotation_status"
          <6>1. collector = "aws.kms.keys" /\ "supports" \in DOMAIN seen[t]
            BY <3>1, <5>1, SupportIsKnown
          <6>2. seen[t].supports # "yes"
            BY <4>2, <5>1 DEF Needed
          <6>3. QED
            BY <1>1, <3>3, <4>2, <5>1, <6>1, <6>2 DEF Told, Unneeded, collector
        <5>2. CASE NextCall.operation = "get_mfa_status"
          <6>1. collector = "ibm.iam.identity.users"
            BY <1>1, <3>1, <5>2, ProgramReads
          <6>2. "report" \in DOMAIN seen[t]
            <7>1. Program.item = {"report"}
              BY <6>1 DEF Program, AwsNames, AzureNames, GcpNames, IbmNames, IbmProgram, IamUsers, Lister
            <7>2. QED
              BY <3>1, <7>1 DEF Informed
          <6>3. IbmTri(seen[t].report) # "unknown"
            BY <4>2, <5>2 DEF Needed
          <6>4. QED
            BY <1>1, <3>3, <4>2, <5>2, <6>1, <6>2, <6>3 DEF Told, Unneeded, collector
        <5>3. QED
          BY <4>2, <5>1, <5>2 DEF Needed
      <4>3. QED
        BY <3>1, <4>1, <4>2
    <3>4. ASSUME NEW u \in listed, NEW c \in EachCalls PROVE Told(u, c)' \/ c \in CallsLeft(u)'
      <4>1. CASE Told(u, c)
        <5>1. ~ListPage
          BY <3>1 DEF ListPage, Asking
        <5>2. collector = "ibm.iam.identity.users" /\ "report" \in DOMAIN seen[u]
                => seen'[u].report = seen[u].report
          BY <1>1, <1>5, <3>4, <5>1, ReportStays DEF Collecting
        <5>3. QED
          BY <1>1, <1>5, <3>4, <4>1, <5>2, ToldStays DEF Collecting
      <4>2. CASE ~Told(u, c)
        <5>1. c \in CallsLeft(u)
          BY <3>1, <3>4, <4>2 DEF Informed, Asking, Running
        <5>2. CallsLeft(u) \subseteq CallsLeft(u)' \cup (IF u = t THEN {NextCall} ELSE {})
          BY <1>1, <3>1, <3>4, CallDone DEF Ground
        <5>3. QED
          BY <3>3, <5>1, <5>2
      <4>3. QED
        BY <4>1, <4>2
    <3>5. QED
      BY <1>1, <3>1, <3>2, <3>4 DEF Informed
  <2>3. QED
    BY <2>1, <2>2
<1>6. QED
  BY <1>2, <1>3, <1>4, <1>5 DEF Collecting

-----------------------------------------------------------------------------
(***************************************************************************)
(* What is known, in every reachable state.                                *)
(***************************************************************************)
LEMMA KnowingStays ==
  ASSUME Ground, Ground', Knowing, [Next]_vars
  PROVE  Knowing'
<1>1. CASE Collecting \/ Changing
  <2>1. FewChanges' /\ SupportStays' /\ KmsOrder' /\ Unlisted' /\ Swept' /\ Whole'
    BY <1>1, FewChangesStays, SupportStaysSo, KmsOrderStays, UnlistedStays, SweptStays, WholeStays
    DEF Knowing
  <2>2. Informed'
    BY <1>1, <2>1, InformedStays DEF Knowing
  <2>3. QED
    BY <2>1, <2>2 DEF Knowing
<1>2. CASE UNCHANGED vars
  <2>1. UNCHANGED <<Program, EachCalls, SweepCalls, Sweepings, collector>>
    BY <1>2 DEF vars, Program, EachCalls, SweepCalls, Sweepings, collector
  <2>2. Informed'
    BY <1>2, <2>1 DEF vars, Knowing, Informed, Told, Unneeded, CallsLeft
  <2>3. Swept'
    BY <1>2, <2>1 DEF vars, Knowing, Swept, Always
  <2>4. Unlisted' /\ KmsOrder' /\ Whole' /\ SupportStays' /\ FewChanges'
    BY <1>2, <2>1 DEF vars, Knowing, Unlisted, KmsOrder, Whole, SupportStays, FewChanges
  <2>5. QED
    BY <2>2, <2>3, <2>4 DEF Knowing
<1>3. QED
  BY <1>1, <1>2 DEF Next, Collecting, Changing

LEMMA FirstKnowing == Init => Knowing
<1>1. SUFFICES ASSUME Init PROVE Knowing
  OBVIOUS
<1>2. /\ subject \in Subjects /\ past = {world} /\ changes = 0 /\ todo = Steps /\ listed = {}
      /\ seen = [t \in Things \cup {0} |-> <<>>] /\ outcome = "running"
  BY <1>1 DEF Init
<1>3. Informed
  BY <1>2 DEF Informed
<1>4. Whole /\ SupportStays
  <2>1. \A t \in Things : DOMAIN seen[t] = {}
    BY <1>2
  <2>2. QED
    BY <1>2, <2>1 DEF Whole, SupportStays
<1>5. FewChanges
  BY <1>2, BoundAssumption DEF FewChanges
<1> DEFINE first == Sweeps(Program.before)
           pages == IF Program.lists THEN <<List(0)>> ELSE <<>>
           last  == Sweeps(Program.after)
           R     == {Sweep(c) : c \in SweepCalls} \cup (IF Program.lists THEN {List(0)} ELSE {})
<1>6. Shaped(Program)
  BY <1>2, ProgramShape
<1>7. ASSUME NEW calls, IsSequence(calls), Elements(calls) \subseteq SweepCalls
      PROVE  Sweeps(calls) \in Seq(R) /\ \A c \in Elements(calls) : Sweep(c) \in Elements(Sweeps(calls))
  <2>1. calls \in Seq(SweepCalls) /\ Len(calls) \in Nat /\ DOMAIN calls = 1..Len(calls)
    BY <1>7, LenProperties DEF IsSequence
  <2>2. \A i \in 1..Len(calls) : Sweep(calls[i]) \in R
    BY <2>1, LenProperties
  <2> HIDE DEF R
  <2>3. Sweeps(calls) \in Seq(R)
    BY <2>1, <2>2 DEF Sweeps
  <2>4. \A c \in Elements(calls) : Sweep(c) \in Elements(Sweeps(calls))
    BY DEF Sweeps, Elements
  <2>5. QED
    BY <2>3, <2>4
<1>8. first \in Seq(R) /\ last \in Seq(R)
      /\ \A c \in SweepCalls : Sweep(c) \in Elements(first) \cup Elements(last)
  BY <1>6, <1>7 DEF Shaped, SweepCalls
<1>9. pages \in Seq(R)
  <2>1. CASE Program.lists
    <3>1. List(0) \in R /\ pages = <<List(0)>>
      BY <2>1
    <3> HIDE DEF R, pages
    <3>2. QED
      BY <3>1
  <2>2. CASE ~Program.lists
    BY <2>2
  <2>3. QED
    BY <2>1, <2>2
<1> HIDE DEF first, last, pages, R
<1>10. /\ first \o pages \in Seq(R) /\ (first \o pages) \o last \in Seq(R)
       /\ Elements((first \o pages) \o last) = Elements(first) \cup Elements(pages) \cup Elements(last)
  <2> DEFINE begin == first \o pages
  <2>1. begin \in Seq(R) /\ Elements(begin) = Elements(first) \cup Elements(pages)
    BY <1>8, <1>9, Joined, ElementsJoin
  <2> HIDE DEF begin
  <2>2. begin \o last \in Seq(R) /\ Elements(begin \o last) = Elements(begin) \cup Elements(last)
    BY <1>8, <2>1, Joined, ElementsJoin
  <2>3. QED
    BY <2>1, <2>2 DEF begin
<1>11. todo = (first \o pages) \o last
  BY <1>2 DEF Steps, first, pages, last
<1>12. Swept
  BY <1>8, <1>10, <1>11 DEF Swept
<1>13. Unlisted
  <2>1. SUFFICES ASSUME ~Program.lists PROVE todo \in Seq(Sweepings)
    BY <1>2 DEF Unlisted
  <2>2. R \subseteq Sweepings
    BY <2>1 DEF R, Sweep, Sweepings
  <2>3. QED
    BY <1>10, <1>11, <2>2
<1>14. KmsOrder
  <2>1. SUFFICES ASSUME collector = "aws.kms.keys" PROVE todo \in Seq(KmsSteps)
    BY DEF KmsOrder
  <2>2. R \subseteq KmsSteps
    BY <2>1, KmsSweepsNothing DEF R, List, KmsSteps
  <2>3. QED
    BY <1>10, <1>11, <2>2
<1>15. QED
  BY <1>3, <1>4, <1>5, <1>12, <1>13, <1>14 DEF Knowing

\* What is known is related to the past of the account, in every reachable state.
THEOREM KnowledgeIsGrounded == Spec => [](Ground /\ Knowing)
<1>1. Init => Ground /\ Knowing
  BY Start, NothingKnownYet, FirstKnowing DEF Ground
<1>2. Ground /\ Knowing /\ [Next]_vars => (Ground /\ Knowing)'
  <2>1. SUFFICES ASSUME Ground, Knowing, [Next]_vars PROVE Ground' /\ Knowing'
    OBVIOUS
  <2>2. Ground'
    BY <2>1, Inductive, KnowledgeStays DEF Ground
  <2>3. QED
    BY <2>1, <2>2, KnowingStays
<1>3. QED
  BY <1>1, <1>2, PTL DEF Spec
=============================================================================
