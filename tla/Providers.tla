----------------------------- MODULE Providers -----------------------------
(***************************************************************************)
(* What the adapters of all providers share: three-valued facts, collectors *)
(* as programs of calls, and firewall rules.                               *)
(*                                                                         *)
(* A call is the name of its operation and the aspects of a configuration   *)
(* that its answer tells.  A collector makes the calls "before", then lists *)
(* things if it "lists" any, makes the calls "each" for every thing of a    *)
(* page before it asks for the next page, and the calls "after" when the    *)
(* last page is done.                                                      *)
(***************************************************************************)
EXTENDS Integers, FiniteSets, Sequences

TriStates == {"yes", "no", "unknown"}

\* Bug: what could not be read is counted as absent.
TriStateLax(unread, is) == IF is THEN "yes" ELSE "no"

\* _tristate, _tri_state: the answer may lack the value
TriState(unread, is) == IF unread THEN "unknown" ELSE IF is THEN "yes" ELSE "no"

Is(b) == TriState(FALSE, b)

\* _tri_state of a sequence: one yes decides, one unknown leaves it open
AnyOf(values) == IF "yes" \in values THEN "yes"
                 ELSE IF "unknown" \in values THEN "unknown" ELSE "no"

\* credential_age_days is None
NoAge == -1

\* More days than any credential is old.
MaxAge == 100000

\* AccountFacts of what no call reads
AccountFacts == [audit_logging_enabled |-> "unknown", mfa_enforced |-> "unknown"]

\* IdentityFacts of what no call reads
IdentityFacts == [mfa_enabled |-> "unknown", credential_age_days |-> NoAge]

Call(operation, aspects) == [operation |-> operation, reads |-> aspects]

\* A collector that reads a listing and nothing else.
Lister(provider, aspects) ==
  [provider |-> provider, before |-> <<>>, lists |-> TRUE, paged |-> TRUE,
   item |-> aspects, each |-> <<>>, after |-> <<>>]

\* A collector that lists nothing.
Reader(provider, calls) ==
  [Lister(provider, {}) EXCEPT !.before = calls, !.lists = FALSE]

\* What is known of something from calls that were made at different times:
\* the value of an aspect, or the value that stands for no answer.
Got(seen, aspect, default) ==
  IF aspect \in DOMAIN seen THEN seen[aspect] ELSE default
-----------------------------------------------------------------------------
(***************************************************************************)
(* A rule of a firewall: its direction, whether it allows, its source, the  *)
(* protocol it is for, and its ports, which it may give as "any" or as a    *)
(* range.  An Azure rule may lack what the others always have.             *)
(***************************************************************************)
Rule(source, low, high) ==
  [direction |-> "in", access |-> "allow", source |-> source, protocol |-> "tcp",
   ports |-> "range", low |-> low, high |-> high]

Overlaps(rule, ports) == \E p \in ports : rule.low <= p /\ p <= rule.high

\* One observation of a collector: which part of the thing it is about (0 is
\* the thing itself), its resource type and its facts.
Observation(part, type, facts) == [part |-> part, type |-> type, facts |-> facts]

\* The parts of a rule set given its rules by their numbers: all of them, and
\* each that is there.
RuleParts(rules) ==
  [i \in {0} \cup {j \in DOMAIN rules : rules[j] # {}} |->
     IF i = 0 THEN UNION {rules[j] : j \in DOMAIN rules} ELSE rules[i]]

RuleType(part) == IF part = 0 THEN "network.firewall_ruleset" ELSE "network.firewall_rule"
=============================================================================
