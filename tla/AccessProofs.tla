---------------------------- MODULE AccessProofs ----------------------------
(***************************************************************************)
(* Proofs about modules Access and Policy, for any users, admins, roles,   *)
(* rules, requests and numbers of goroutines.                              *)
(***************************************************************************)
EXTENDS Access, SelectionProofs

-----------------------------------------------------------------------------
(* Authorize.  The loop over rules comes to a verdict that depends only on *)
(* the set of effects it has met.                                          *)

Verdicts == {"none", "allow", "deny"}

\* The verdict v after rules of these effects.
After(v, effects) ==
    IF "deny" \in effects \cup {v} THEN "deny" ELSE IF effects = {} THEN v ELSE "allow"

\* The effects of the first n rules, as far as they apply.
EffectsTo(rules, req, n) == {rules[i].effect : i \in {j \in 1..n : Matches(rules[j], req)}}

Effects(rules, req) == {rule.effect : rule \in {r \in ToSet(rules) : Matches(r, req)}}

\* A verdict after some effects and then others.
LEMMA AfterBoth ==
    ASSUME NEW v \in Verdicts, NEW E, NEW F
    PROVE  After(v, E) \in Verdicts /\ After(After(v, E), F) = After(v, E \cup F)
BY DEF After, Verdicts

\* One more rule.
LEMMA AfterOne ==
    ASSUME NEW v \in Verdicts, NEW rules, NEW req, NEW n \in Nat
    PROVE  After(v, EffectsTo(rules, req, n + 1)) =
               IF Matches(rules[n + 1], req)
               THEN Weigh(After(v, EffectsTo(rules, req, n)), rules[n + 1])
               ELSE After(v, EffectsTo(rules, req, n))
<1>. DEFINE old == EffectsTo(rules, req, n)
            new == EffectsTo(rules, req, n + 1)
<1>1. 1..(n + 1) = (1..n) \cup {n + 1}
    OBVIOUS
<1>2. CASE Matches(rules[n + 1], req)
    <2>1. new = old \cup {rules[n + 1].effect}
        BY <1>1, <1>2 DEF EffectsTo
    <2>. HIDE DEF old, new
    <2>. QED
        BY <1>2, <2>1 DEF After, Weigh, old, new
<1>3. CASE ~Matches(rules[n + 1], req)
    <2>1. new = old
        BY <1>1, <1>3 DEF EffectsTo
    <2>. QED
        BY <1>3, <2>1
<1>. QED
    BY <1>2, <1>3

\* The loop over the rules of a role.
RuleLoop(verdict, rules, req, after) ==
    after = [n \in 0..Len(rules) |->
                IF n = 0 THEN verdict
                ELSE IF Matches(rules[n], req) THEN Weigh(after[n - 1], rules[n]) ELSE after[n - 1]]

LEMMA RuleVerdictIs ==
    ASSUME NEW v \in Verdicts, NEW rules, Len(rules) \in Nat, NEW req
    PROVE  RuleVerdict(v, rules, req) = After(v, EffectsTo(rules, req, Len(rules)))
<1>. DEFINE f == [n \in 0..Len(rules) |-> After(v, EffectsTo(rules, req, n))]
<1>1. ASSUME NEW n \in 0..Len(rules)
      PROVE  f[n] = IF n = 0 THEN v
                    ELSE IF Matches(rules[n], req) THEN Weigh(f[n - 1], rules[n]) ELSE f[n - 1]
    <2>1. CASE n = 0
        <3>1. EffectsTo(rules, req, 0) = {}
            BY DEF EffectsTo
        <3>. QED
            BY <2>1, <3>1 DEF After
    <2>2. CASE n # 0
        <3>. DEFINE m == n - 1
        <3>1. m \in Nat /\ m \in 0..Len(rules) /\ n = m + 1
            BY <2>2
        <3>. HIDE DEF m
        <3>2. f[n] = IF Matches(rules[n], req) THEN Weigh(f[m], rules[n]) ELSE f[m]
            BY <3>1, AfterOne
        <3>. QED
            BY <2>2, <3>2 DEF m
    <2>. QED
        BY <2>1, <2>2
<1>. HIDE DEF f
<1>2. RuleLoop(v, rules, req, f)
    BY <1>1 DEF RuleLoop, f
<1>. DEFINE chosen == CHOOSE after : RuleLoop(v, rules, req, after)
<1>3. RuleLoop(v, rules, req, chosen)
    BY <1>2
<1>4. RuleVerdict(v, rules, req) = chosen[Len(rules)]
    BY DEF RuleVerdict, RuleLoop
<1>. HIDE DEF chosen
<1>5. \A n \in 0..Len(rules) : chosen[n] = f[n]
    <2>1. chosen[0] = f[0]
        BY <1>2, <1>3 DEF RuleLoop
    <2>2. ASSUME NEW n \in 0..Len(rules), n < Len(rules), chosen[n] = f[n]
          PROVE  chosen[n + 1] = f[n + 1]
        <3>1. n + 1 \in 0..Len(rules) /\ n + 1 # 0 /\ (n + 1) - 1 = n
            BY <2>2
        <3>. QED
            BY <1>2, <1>3, <2>2, <3>1 DEF RuleLoop
    <2>. QED
        BY <2>1, <2>2, LoopsAgree
<1>. QED
    BY <1>4, <1>5 DEF f

\* Its effects, said without numbers.
LEMMA EffectsOfSequence ==
    ASSUME NEW E, NEW rules \in Seq(E), NEW req
    PROVE  EffectsTo(rules, req, Len(rules)) = Effects(rules, req)
<1>1. DOMAIN rules = 1..Len(rules)
    OBVIOUS
<1>. QED
    BY <1>1 DEF EffectsTo, Effects, ToSet

-----------------------------------------------------------------------------
(* The loop over bindings.                                                 *)

\* The effects that apply by the first n bindings.
EffectsBy(bs, rules, req, now0, n) ==
    UNION {Effects(rules[bs[i].role], req) : i \in {j \in 1..n : ~IsExpired(bs[j], now0)}}

BindingLoop(bs, rules, req, now0, after) ==
    after = [n \in 0..Len(bs) |->
                IF n = 0 THEN "none"
                ELSE IF IsExpired(bs[n], now0) THEN after[n - 1]
                ELSE RuleVerdict(after[n - 1], rules[bs[n].role], req)]

\* One more binding.
LEMMA ByOne ==
    ASSUME NEW bs, NEW rules, NEW req, NEW now0, NEW n \in Nat,
           rules[bs[n + 1].role] \in Seq(ToSet(rules[bs[n + 1].role]))
    PROVE  After("none", EffectsBy(bs, rules, req, now0, n + 1)) =
               IF IsExpired(bs[n + 1], now0) THEN After("none", EffectsBy(bs, rules, req, now0, n))
               ELSE RuleVerdict(After("none", EffectsBy(bs, rules, req, now0, n)),
                                rules[bs[n + 1].role], req)
<1>. DEFINE old == EffectsBy(bs, rules, req, now0, n)
            new == EffectsBy(bs, rules, req, now0, n + 1)
            its == rules[bs[n + 1].role]
<1>1. 1..(n + 1) = (1..n) \cup {n + 1}
    OBVIOUS
<1>2. CASE IsExpired(bs[n + 1], now0)
    <2>1. new = old
        BY <1>1, <1>2 DEF EffectsBy
    <2>. QED
        BY <1>2, <2>1
<1>3. CASE ~IsExpired(bs[n + 1], now0)
    <2>1. new = old \cup Effects(its, req)
        BY <1>1, <1>3 DEF EffectsBy
    <2>2. "none" \in Verdicts
        BY DEF Verdicts
    <2>. HIDE DEF old, new, its
    <2>3. After("none", old) \in Verdicts
          /\ After(After("none", old), Effects(its, req)) = After("none", new)
        BY <2>1, <2>2, AfterBoth
    <2>4. its \in Seq(ToSet(its))
        BY DEF its
    <2>5. Len(its) \in Nat
        BY <2>4
    <2>6. RuleVerdict(After("none", old), its, req) = After(After("none", old), Effects(its, req))
        BY <2>3, <2>4, <2>5, RuleVerdictIs, EffectsOfSequence
    <2>. QED
        BY <1>3, <2>3, <2>6 DEF old, new, its
<1>. QED
    BY <1>2, <1>3

LEMMA VerdictIs ==
    ASSUME NEW bs, Len(bs) \in Nat, NEW rules, NEW req, NEW now0,
           \A i \in 1..Len(bs) : rules[bs[i].role] \in Seq(ToSet(rules[bs[i].role]))
    PROVE  Verdict(bs, rules, req, now0) = After("none", EffectsBy(bs, rules, req, now0, Len(bs)))
<1>. DEFINE f == [n \in 0..Len(bs) |-> After("none", EffectsBy(bs, rules, req, now0, n))]
<1>1. ASSUME NEW n \in 0..Len(bs)
      PROVE  f[n] = IF n = 0 THEN "none"
                    ELSE IF IsExpired(bs[n], now0) THEN f[n - 1]
                    ELSE RuleVerdict(f[n - 1], rules[bs[n].role], req)
    <2>1. CASE n = 0
        <3>1. EffectsBy(bs, rules, req, now0, 0) = {}
            BY DEF EffectsBy
        <3>. QED
            BY <2>1, <3>1 DEF After
    <2>2. CASE n # 0
        <3>. DEFINE m == n - 1
        <3>1. m \in Nat /\ m \in 0..Len(bs) /\ n = m + 1 /\ n \in 1..Len(bs)
            BY <2>2
        <3>. HIDE DEF m
        <3>2. f[n] = IF IsExpired(bs[n], now0) THEN f[m]
                     ELSE RuleVerdict(f[m], rules[bs[n].role], req)
            BY <3>1, ByOne
        <3>. QED
            BY <2>2, <3>2 DEF m
    <2>. QED
        BY <2>1, <2>2
<1>. HIDE DEF f
<1>2. BindingLoop(bs, rules, req, now0, f)
    BY <1>1 DEF BindingLoop, f
<1>. DEFINE chosen == CHOOSE after : BindingLoop(bs, rules, req, now0, after)
<1>3. BindingLoop(bs, rules, req, now0, chosen)
    BY <1>2
<1>4. Verdict(bs, rules, req, now0) = chosen[Len(bs)]
    BY DEF Verdict, BindingLoop
<1>. HIDE DEF chosen
<1>5. \A n \in 0..Len(bs) : chosen[n] = f[n]
    <2>1. chosen[0] = f[0]
        BY <1>2, <1>3 DEF BindingLoop
    <2>2. ASSUME NEW n \in 0..Len(bs), n < Len(bs), chosen[n] = f[n]
          PROVE  chosen[n + 1] = f[n + 1]
        <3>1. n + 1 \in 0..Len(bs) /\ n + 1 # 0 /\ (n + 1) - 1 = n
            BY <2>2
        <3>. QED
            BY <1>2, <1>3, <2>2, <3>1 DEF BindingLoop
    <2>. QED
        BY <2>1, <2>2, LoopsAgree
<1>. QED
    BY <1>4, <1>5 DEF f

\* The effects that count, as Meant has them, of a set of bindings.
Counting(B, rules, req, now0) ==
    {rule.effect : rule \in
        {r \in UNION {ToSet(rules[b.role]) : b \in {c \in B : c.expires = NoExpiry \/ now0 <= c.expires}} :
         \A f \in Field : "*" \in r[f] \/ req[f] \in r[f]}}

LEMMA EffectsCount ==
    ASSUME NEW bs \in Seq(Binding), NEW rules, NEW req, NEW now0 \in Int
    PROVE  EffectsBy(bs, rules, req, now0, Len(bs)) = Counting(ToSet(bs), rules, req, now0)
<1>1. DOMAIN bs = 1..Len(bs) /\ \A i \in 1..Len(bs) : bs[i] \in Binding
    OBVIOUS
<1>2. \A b \in Binding : b.expires \in Int
    BY AccessAssumption DEF Binding, NoExpiry
<1>3. \A b \in Binding : ~IsExpired(b, now0) <=> b.expires = NoExpiry \/ now0 <= b.expires
    BY <1>2 DEF IsExpired
<1>4. \A r : Matches(r, req) <=> \A f \in Field : "*" \in r[f] \/ req[f] \in r[f]
    BY DEF Matches
<1>. DEFINE by == EffectsBy(bs, rules, req, now0, Len(bs))
            counting == Counting(ToSet(bs), rules, req, now0)
<1>5. ASSUME NEW e, e \in by PROVE e \in counting
    <2>1. PICK i \in 1..Len(bs) : ~IsExpired(bs[i], now0) /\ e \in Effects(rules[bs[i].role], req)
        BY <1>5 DEF EffectsBy
    <2>2. PICK r \in ToSet(rules[bs[i].role]) : Matches(r, req) /\ e = r.effect
        BY <2>1 DEF Effects
    <2>3. bs[i] \in ToSet(bs) /\ (bs[i].expires = NoExpiry \/ now0 <= bs[i].expires)
        BY <1>1, <1>3, <2>1 DEF ToSet
    <2>. HIDE DEF IsExpired
    <2>. QED
        BY <1>4, <2>2, <2>3 DEF Counting
<1>6. ASSUME NEW e, e \in counting PROVE e \in by
    <2>0. PICK b \in ToSet(bs) :
              /\ b.expires = NoExpiry \/ now0 <= b.expires
              /\ \E r \in ToSet(rules[b.role]) :
                    (\A f \in Field : "*" \in r[f] \/ req[f] \in r[f]) /\ e = r.effect
        BY <1>6 DEF Counting
    <2>1. PICK r \in ToSet(rules[b.role]) :
              (\A f \in Field : "*" \in r[f] \/ req[f] \in r[f]) /\ e = r.effect
        BY <2>0
    <2>2. PICK i \in 1..Len(bs) : b = bs[i]
        BY <1>1 DEF ToSet
    <2>3. e \in Effects(rules[bs[i].role], req)
        BY <1>4, <2>1, <2>2 DEF Effects
    <2>4. ~IsExpired(bs[i], now0)
        BY <1>1, <1>3, <2>0, <2>2
    <2>. QED
        BY <2>3, <2>4 DEF EffectsBy
<1>. QED
    BY <1>5, <1>6

\* What Authorize answers is what the bindings and the rules mean.
LEMMA AuthorizeIsMeant ==
    ASSUME NEW bs \in Seq(Binding), NEW rules, NEW req, NEW now0 \in Int, NEW flat \in BOOLEAN,
           \A r \in DOMAIN Rules : rules[r] \in Seq(ToSet(rules[r]))
    PROVE  Authorize(bs, rules, req, now0, flat) = Meant(ToSet(bs), rules, req, now0, flat)
<1>. DEFINE effects == Counting(ToSet(bs), rules, req, now0)
<1>1. Len(bs) \in Nat /\ \A i \in 1..Len(bs) : bs[i].role \in DOMAIN Rules
    <2>1. \A b \in Binding : b.role \in DOMAIN Rules
        BY DEF Binding
    <2>2. Len(bs) \in Nat /\ \A i \in 1..Len(bs) : bs[i] \in Binding
        OBVIOUS
    <2>. QED
        BY <2>1, <2>2
<1>2. Verdict(bs, rules, req, now0) = After("none", effects)
    BY <1>1, VerdictIs, EffectsCount
<1>3. Meant(ToSet(bs), rules, req, now0, flat)
          = ("deny" \notin effects /\ (effects # {} \/ flat))
    BY DEF Meant, Counting
<1>. HIDE DEF effects
<1>. QED
    BY <1>2, <1>3 DEF Authorize, After

-----------------------------------------------------------------------------
(* The slices of the built-in roles.  The operator's array has room for    *)
(* what on-call adds, behind what the operator's slice reaches; admin has  *)
(* moved to an array of its own by then.                                   *)

\* The permissions that the lists name.
Named == ToSet(ViewerPerms) \cup ToSet(OperatorAdds) \cup ToSet(AdminAdds) \cup ToSet(OnCallAdds)

LEMMA Lists ==
    /\ ViewerPerms \in Seq(Named) /\ Len(ViewerPerms) = 12
    /\ OperatorAdds \in Seq(Named) /\ Len(OperatorAdds) = 4
    /\ AdminAdds \in Seq(Named) /\ Len(AdminAdds) = 10
    /\ OnCallAdds \in Seq(Named) /\ Len(OnCallAdds) = 2
<1>1. ViewerPerms \in Seq(ToSet(ViewerPerms)) /\ Len(ViewerPerms) = 12
    BY DEF ViewerPerms, ToSet
<1>2. OperatorAdds \in Seq(ToSet(OperatorAdds)) /\ Len(OperatorAdds) = 4
    BY DEF OperatorAdds, ToSet
<1>3. AdminAdds \in Seq(ToSet(AdminAdds)) /\ Len(AdminAdds) = 10
    BY DEF AdminAdds, ToSet
<1>4. OnCallAdds \in Seq(ToSet(OnCallAdds)) /\ Len(OnCallAdds) = 2
    BY DEF OnCallAdds, ToSet
<1>5. ASSUME NEW A, NEW B, A \subseteq B, NEW s \in Seq(A) PROVE s \in Seq(B)
    BY <1>5
<1>6. /\ ToSet(ViewerPerms) \subseteq Named /\ ToSet(OperatorAdds) \subseteq Named
      /\ ToSet(AdminAdds) \subseteq Named /\ ToSet(OnCallAdds) \subseteq Named
    BY DEF Named
<1>. QED
    BY <1>1, <1>2, <1>3, <1>4, <1>5, <1>6

\* Of a sequence, and of two in a row: the elements, and the first part.
LEMMA Whole ==
    ASSUME NEW E, NEW s \in Seq(E)
    PROVE  {s[i] : i \in 1..Len(s)} = ToSet(s) /\ SubSeq(s, 1, Len(s)) = s
<1>1. DOMAIN s = 1..Len(s)
    OBVIOUS
<1>2. SubSeq(s, 1, Len(s)) = s
    OBVIOUS
<1>. QED
    BY <1>1, <1>2 DEF ToSet

LEMMA Joined ==
    ASSUME NEW E, NEW s \in Seq(E), NEW t \in Seq(E)
    PROVE  /\ s \o t \in Seq(E) /\ Len(s \o t) = Len(s) + Len(t)
           /\ \A i \in 1..Len(s) : (s \o t)[i] = s[i]
           /\ \A i \in 1..Len(t) : (s \o t)[Len(s) + i] = t[i]
OBVIOUS

LEMMA JoinedElements ==
    ASSUME NEW E, NEW s \in Seq(E), NEW t \in Seq(E), NEW st, st = s \o t
    PROVE  ToSet(st) = ToSet(s) \cup ToSet(t)
<1>1. /\ st \in Seq(E) /\ Len(st) = Len(s) + Len(t) /\ Len(s) \in Nat /\ Len(t) \in Nat
      /\ DOMAIN s = 1..Len(s) /\ DOMAIN t = 1..Len(t) /\ DOMAIN st = 1..Len(st)
      /\ \A i \in 1..Len(s) : st[i] = s[i]
      /\ \A i \in 1..Len(t) : st[Len(s) + i] = t[i]
    BY Joined
<1>2. ASSUME NEW e, e \in ToSet(st) PROVE e \in ToSet(s) \cup ToSet(t)
    <2>1. PICK i \in 1..Len(st) : e = st[i]
        BY <1>1, <1>2 DEF ToSet
    <2>2. CASE i \in 1..Len(s)
        BY <1>1, <2>1, <2>2 DEF ToSet
    <2>3. CASE i \notin 1..Len(s)
        <3>1. i - Len(s) \in 1..Len(t) /\ Len(s) + (i - Len(s)) = i
            BY <1>1, <2>3
        <3>2. PICK j \in 1..Len(t) : Len(s) + j = i
            BY <3>1
        <3>3. e = t[j]
            BY <1>1, <2>1, <3>2
        <3>. QED
            BY <1>1, <3>3 DEF ToSet
    <2>. QED
        BY <2>2, <2>3
<1>3. ASSUME NEW e, e \in ToSet(s) PROVE e \in ToSet(st)
    <2>1. PICK i \in 1..Len(s) : e = s[i]
        BY <1>1, <1>3 DEF ToSet
    <2>2. i \in 1..Len(st) /\ e = st[i]
        BY <1>1, <2>1
    <2>. QED
        BY <1>1, <2>2 DEF ToSet
<1>4. ASSUME NEW e, e \in ToSet(t) PROVE e \in ToSet(st)
    <2>1. PICK i \in 1..Len(t) : e = t[i]
        BY <1>1, <1>4 DEF ToSet
    <2>2. Len(s) + i \in 1..Len(st) /\ e = st[Len(s) + i]
        BY <1>1, <2>1
    <2>. QED
        BY <1>1, <2>2 DEF ToSet
<1>. QED
    BY <1>2, <1>3, <1>4

Viewer == Literal(ViewerPerms)
Operator == Append2(Viewer, OperatorAdds)
Admin == Append2(Operator, AdminAdds)
OnCall == Append2([at |-> Operator.at, len |-> Operator.len, arrays |-> Admin.arrays], OnCallAdds)

\* The permissions of the operator, and what others append to them.
VO == ViewerPerms \o OperatorAdds
VOA == VO \o AdminAdds
VOC == VO \o OnCallAdds

LEMMA Appended ==
    /\ VO \in Seq(Named) /\ Len(VO) = 16
    /\ VOA \in Seq(Named) /\ Len(VOA) = 26
    /\ VOC \in Seq(Named) /\ Len(VOC) = 18
<1>1. VO \in Seq(Named) /\ Len(VO) = Len(ViewerPerms) + Len(OperatorAdds)
    <2>1. ViewerPerms \in Seq(Named) /\ OperatorAdds \in Seq(Named)
        BY Lists
    <2>. QED
        BY <2>1, Joined DEF VO
<1>2. VOA \in Seq(Named) /\ Len(VOA) = Len(VO) + Len(AdminAdds)
    <2>1. AdminAdds \in Seq(Named)
        BY Lists
    <2>. QED
        BY <1>1, <2>1, Joined DEF VOA
<1>3. VOC \in Seq(Named) /\ Len(VOC) = Len(VO) + Len(OnCallAdds)
    <2>1. OnCallAdds \in Seq(Named)
        BY Lists
    <2>. QED
        BY <1>1, <2>1, Joined DEF VOC
<1>4. /\ Len(ViewerPerms) = 12 /\ Len(OperatorAdds) = 4
      /\ Len(AdminAdds) = 10 /\ Len(OnCallAdds) = 2
    BY Lists
<1>5. Len(VO) = 16
    BY <1>1, <1>4
<1>. QED
    BY <1>1, <1>2, <1>3, <1>4, <1>5

\* The arrays, as they come to be.
First0 == [elems |-> ViewerPerms, cap |-> 12]
Second0 == [elems |-> VO, cap |-> 24]
Third0 == [elems |-> VOA, cap |-> 48]
Arrays == {First0, Second0, Third0}

\* An append that finds no room takes another array, of twice the size; one
\* that finds room writes on in the array that is there.
Fits(slice, adds) == slice.len + Len(adds) <= slice.arrays[slice.at].cap
Joint(slice, adds) == SubSeq(slice.arrays[slice.at].elems, 1, slice.len) \o adds
Beyond(slice, len) ==
    SubSeq(slice.arrays[slice.at].elems, len + 1, Len(slice.arrays[slice.at].elems))
Room(slice, len) ==
    IF len > 2 * slice.arrays[slice.at].cap THEN len ELSE 2 * slice.arrays[slice.at].cap

LEMMA AppendGrows ==
    ASSUME NEW slice, NEW adds, ~Fits(slice, adds)
    PROVE  Append2(slice, adds) =
               [at |-> Len(slice.arrays) + 1, len |-> slice.len + Len(adds),
                arrays |-> Append(slice.arrays,
                    [elems |-> Joint(slice, adds), cap |-> Room(slice, slice.len + Len(adds))])]
BY ZenonT(60) DEF Append2, Fits, Joint, Room

LEMMA AppendFits ==
    ASSUME NEW slice, NEW adds, Fits(slice, adds)
    PROVE  Append2(slice, adds) =
               [at |-> slice.at, len |-> slice.len + Len(adds),
                arrays |-> [slice.arrays EXCEPT ![slice.at] =
                    [elems |-> Joint(slice, adds) \o Beyond(slice, slice.len + Len(adds)),
                     cap |-> slice.arrays[slice.at].cap]]]
BY ZenonT(60) DEF Append2, Fits, Joint, Beyond

LEMMA ViewerSlice ==
    /\ Viewer.at = 1 /\ Viewer.len = 12
    /\ Viewer.arrays \in Seq(Arrays) /\ Len(Viewer.arrays) = 1 /\ Viewer.arrays[1] = First0
<1>1. Viewer = [at |-> 1, len |-> 12, arrays |-> <<First0>>]
    BY Lists DEF Viewer, Literal, First0
<1>2. <<First0>> \in Seq(Arrays) /\ Len(<<First0>>) = 1 /\ <<First0>>[1] = First0
    BY DEF Arrays
<1>. QED
    BY <1>1, <1>2

LEMMA OperatorSlice ==
    /\ Operator.at = 2 /\ Operator.len = 16
    /\ Operator.arrays \in Seq(Arrays) /\ Len(Operator.arrays) = 2
    /\ Operator.arrays[1] = First0 /\ Operator.arrays[2] = Second0
<1>1. First0.cap = 12 /\ First0.elems = ViewerPerms
    BY DEF First0
<1>2. SubSeq(ViewerPerms, 1, 12) \o OperatorAdds = VO
    BY Lists, Whole DEF VO
<1>3. Operator = [at |-> 2, len |-> 16,
                  arrays |-> Append(Viewer.arrays,
                      [elems |-> SubSeq(ViewerPerms, 1, 12) \o OperatorAdds, cap |-> 24])]
    <2>1. /\ Len(OperatorAdds) = 4 /\ Viewer.len = 12 /\ Viewer.at = 1 /\ Len(Viewer.arrays) = 1
          /\ Viewer.arrays[1].cap = 12 /\ Viewer.arrays[1].elems = ViewerPerms
        BY <1>1, ViewerSlice, Lists
    <2>2. ~Fits(Viewer, OperatorAdds)
        BY <2>1 DEF Fits
    <2>3. /\ Len(Viewer.arrays) + 1 = 2 /\ Viewer.len + Len(OperatorAdds) = 16
          /\ Room(Viewer, 16) = 24
        BY <2>1 DEF Room
    <2>4. Joint(Viewer, OperatorAdds) = SubSeq(ViewerPerms, 1, 12) \o OperatorAdds
        BY <2>1, Zenon DEF Joint
    <2>5. Append2(Viewer, OperatorAdds) =
              [at |-> Len(Viewer.arrays) + 1, len |-> Viewer.len + Len(OperatorAdds),
               arrays |-> Append(Viewer.arrays,
                   [elems |-> Joint(Viewer, OperatorAdds), cap |-> Room(Viewer, Viewer.len + Len(OperatorAdds))])]
        BY <2>2, AppendGrows, ZenonT(60)
    <2>. QED
        BY <2>3, <2>4, <2>5, ZenonT(60) DEF Operator
<1>4. Second0 \in Arrays
    BY DEF Arrays
<1>5. Operator = [at |-> 2, len |-> 16, arrays |-> Append(Viewer.arrays, Second0)]
    BY <1>2, <1>3 DEF Second0
<1>. QED
    BY <1>4, <1>5, ViewerSlice

LEMMA AdminSlice ==
    /\ Admin.at = 3 /\ Admin.len = 26
    /\ Admin.arrays \in Seq(Arrays) /\ Len(Admin.arrays) = 3
    /\ Admin.arrays[1] = First0 /\ Admin.arrays[2] = Second0 /\ Admin.arrays[3] = Third0
<1>1. Second0.cap = 24 /\ Second0.elems = VO
    BY DEF Second0
<1>2. SubSeq(VO, 1, 16) \o AdminAdds = VOA
    BY Appended, Whole DEF VOA
<1>3. Admin = [at |-> 3, len |-> 26,
               arrays |-> Append(Operator.arrays,
                   [elems |-> SubSeq(VO, 1, 16) \o AdminAdds, cap |-> 48])]
    <2>1. /\ Len(AdminAdds) = 10 /\ Operator.len = 16 /\ Operator.at = 2 /\ Len(Operator.arrays) = 2
          /\ Operator.arrays[2].cap = 24 /\ Operator.arrays[2].elems = VO
        BY <1>1, OperatorSlice, Lists
    <2>2. ~Fits(Operator, AdminAdds)
        BY <2>1 DEF Fits
    <2>3. /\ Len(Operator.arrays) + 1 = 3 /\ Operator.len + Len(AdminAdds) = 26
          /\ Room(Operator, 26) = 48
        BY <2>1 DEF Room
    <2>4. Joint(Operator, AdminAdds) = SubSeq(VO, 1, 16) \o AdminAdds
        BY <2>1, Zenon DEF Joint
    <2>5. Append2(Operator, AdminAdds) =
              [at |-> Len(Operator.arrays) + 1, len |-> Operator.len + Len(AdminAdds),
               arrays |-> Append(Operator.arrays,
                   [elems |-> Joint(Operator, AdminAdds), cap |-> Room(Operator, Operator.len + Len(AdminAdds))])]
        BY <2>2, AppendGrows, ZenonT(60)
    <2>. QED
        BY <2>3, <2>4, <2>5, ZenonT(60) DEF Admin
<1>4. Third0 \in Arrays
    BY DEF Arrays
<1>5. Admin = [at |-> 3, len |-> 26, arrays |-> Append(Operator.arrays, Third0)]
    BY <1>2, <1>3 DEF Third0
<1>. QED
    BY SMTT(60), <1>4, <1>5, OperatorSlice

LEMMA OnCallSlice ==
    /\ OnCall.at = 2 /\ OnCall.len = 18
    /\ OnCall.arrays[1].elems = ViewerPerms
    /\ OnCall.arrays[2].elems = VOC
    /\ OnCall.arrays[3].elems = VOA
<1>1. Second0.cap = 24 /\ Second0.elems = VO
    BY DEF Second0
<1>2. SubSeq(VO, 1, 16) \o OnCallAdds = VOC
    BY Appended, Whole DEF VOC
<1>3. VOC \o SubSeq(VO, 19, Len(VO)) = VOC
    <2>1. SubSeq(VO, 19, 16) = <<>>
        BY Appended
    <2>2. VOC \o <<>> = VOC
        BY Appended
    <2>. QED
        BY <2>1, <2>2, Appended
<1>4. PICK slice : slice = [at |-> Operator.at, len |-> Operator.len, arrays |-> Admin.arrays]
    OBVIOUS
<1>5. /\ slice.at = 2 /\ slice.len = 16 /\ slice.arrays = Admin.arrays
      /\ slice.arrays[2].cap = 24 /\ slice.arrays[2].elems = VO
    <2>1. slice.at = Operator.at /\ slice.len = Operator.len /\ slice.arrays = Admin.arrays
        BY <1>4
    <2>. QED
        BY <1>1, <2>1, OperatorSlice, AdminSlice, Zenon
<1>6. Append2(slice, OnCallAdds)
          = [at |-> 2, len |-> 18,
             arrays |-> [Admin.arrays EXCEPT ![2] =
                 [elems |-> (SubSeq(VO, 1, 16) \o OnCallAdds) \o SubSeq(VO, 19, Len(VO)),
                  cap |-> 24]]]
    <2>1. Len(OnCallAdds) = 2
        BY Lists
    <2>2. slice.len + Len(OnCallAdds) = 18 /\ 18 + 1 = 19 /\ 18 <= 24
        BY <1>5, <2>1
    <2>3. Fits(slice, OnCallAdds)
        BY <1>5, <2>2, Zenon DEF Fits
    <2>4. /\ Joint(slice, OnCallAdds) = SubSeq(VO, 1, 16) \o OnCallAdds
          /\ Beyond(slice, 18) = SubSeq(VO, 19, Len(VO))
        BY <1>5, <2>2, Zenon DEF Joint, Beyond
    <2>5. Append2(slice, OnCallAdds) =
              [at |-> slice.at, len |-> slice.len + Len(OnCallAdds),
               arrays |-> [slice.arrays EXCEPT ![slice.at] =
                   [elems |-> Joint(slice, OnCallAdds) \o Beyond(slice, slice.len + Len(OnCallAdds)),
                    cap |-> slice.arrays[slice.at].cap]]]
        BY <2>3, AppendFits, ZenonT(60)
    <2>. QED
        BY <1>5, <2>2, <2>4, <2>5, ZenonT(60)
<1>7. OnCall = [at |-> 2, len |-> 18,
                arrays |-> [Admin.arrays EXCEPT ![2] = [elems |-> VOC, cap |-> 24]]]
    BY <1>2, <1>3, <1>4, <1>6, ZenonT(60) DEF OnCall
<1>. QED
    BY <1>7, AdminSlice DEF First0, Third0

\* What a role reads: the elements of its slice, after the last append.
Reads(slice) == {OnCall.arrays[slice.at].elems[i] : i \in 1..slice.len}

LEMMA ReadsAre ==
    /\ Reads(Viewer) = ToSet(ViewerPerms)
    /\ Reads(Operator) = ToSet(ViewerPerms) \cup ToSet(OperatorAdds)
    /\ Reads(Admin) = ToSet(ViewerPerms) \cup ToSet(OperatorAdds) \cup ToSet(AdminAdds)
    /\ Reads(OnCall) = ToSet(ViewerPerms) \cup ToSet(OperatorAdds) \cup ToSet(OnCallAdds)
<1>0. \A s, t \in Seq(Named) : ToSet(s \o t) = ToSet(s) \cup ToSet(t)
    BY JoinedElements, ZenonT(60)
<1>1. /\ ToSet(VO) = ToSet(ViewerPerms) \cup ToSet(OperatorAdds)
      /\ ToSet(VOA) = ToSet(VO) \cup ToSet(AdminAdds)
      /\ ToSet(VOC) = ToSet(VO) \cup ToSet(OnCallAdds)
    <2>1. ToSet(VO) = ToSet(ViewerPerms) \cup ToSet(OperatorAdds)
        <3>1. ViewerPerms \in Seq(Named) /\ OperatorAdds \in Seq(Named)
            BY Lists
        <3>. QED
            BY ZenonT(60), <1>0, <3>1 DEF VO
    <2>2. ToSet(VOA) = ToSet(VO) \cup ToSet(AdminAdds)
        <3>1. VO \in Seq(Named) /\ AdminAdds \in Seq(Named)
            BY Lists, Appended
        <3>. QED
            BY ZenonT(60), <1>0, <3>1 DEF VOA
    <2>3. ToSet(VOC) = ToSet(VO) \cup ToSet(OnCallAdds)
        <3>1. VO \in Seq(Named) /\ OnCallAdds \in Seq(Named)
            BY Lists, Appended
        <3>. QED
            BY ZenonT(60), <1>0, <3>1 DEF VOC
    <2>. QED
        BY <2>1, <2>2, <2>3
<1>2. Reads(Viewer) = {ViewerPerms[i] : i \in 1..Len(ViewerPerms)}
    BY Lists, ViewerSlice, OnCallSlice DEF Reads
<1>3. Reads(Operator) = {VOC[i] : i \in 1..Len(VO)}
    BY Appended, OperatorSlice, OnCallSlice DEF Reads
<1>4. Reads(Admin) = {VOA[i] : i \in 1..Len(VOA)}
    BY Appended, AdminSlice, OnCallSlice DEF Reads
<1>5. Reads(OnCall) = {VOC[i] : i \in 1..Len(VOC)}
    BY Appended, OnCallSlice DEF Reads
<1>6. Reads(Viewer) = ToSet(ViewerPerms)
    BY <1>2, Lists, Whole
<1>7. Reads(Operator) = ToSet(VO)
    <2>1. VO \in Seq(Named) /\ OnCallAdds \in Seq(Named)
        BY Appended, Lists
    <2>2. \A i \in 1..Len(VO) : (VO \o OnCallAdds)[i] = VO[i]
        BY <2>1, Joined
    <2>3. {VOC[i] : i \in 1..Len(VO)} = {VO[i] : i \in 1..Len(VO)}
        BY <2>2 DEF VOC
    <2>. QED
        BY <1>3, <2>1, <2>3, Whole
<1>8. Reads(Admin) = ToSet(VOA)
    BY <1>4, Appended, Whole
<1>9. Reads(OnCall) = ToSet(VOC)
    BY <1>5, Appended, Whole
<1>. QED
    BY <1>1, <1>6, <1>7, <1>8, <1>9

\* The roles that share an array do not run into one another: each reads what
\* is written for it (defaultRoles).
THEOREM RolesReadTheirOwn == BuiltinPerms = WrittenPerms
<1>1. BuiltinPerms = [r \in RoleName |->
          CASE r = "viewer"   -> Reads(Viewer)
            [] r = "operator" -> Reads(Operator)
            [] r = "on-call"  -> Reads(OnCall)
            [] OTHER          -> Reads(Admin)]
    BY DEF BuiltinPerms, Slices, Reads, Viewer, Operator, Admin, OnCall
<1>. DEFINE which(r) == CASE r = "viewer"   -> Reads(Viewer)
                          [] r = "operator" -> Reads(Operator)
                          [] r = "on-call"  -> Reads(OnCall)
                          [] OTHER          -> Reads(Admin)
<1>2. /\ which("viewer") = Reads(Viewer)
      /\ which("operator") = Reads(Operator)
      /\ which("on-call") = Reads(OnCall)
      /\ which("admin") = Reads(Admin)
      /\ which("super-admin") = Reads(Admin)
    BY Zenon
<1>3. BuiltinPerms = [r \in RoleName |-> which(r)]
    BY <1>1
<1>. HIDE DEF which
<1>4. \A r \in RoleName : which(r) = WrittenPerms[r]
    BY <1>2, ReadsAre DEF RoleName, WrittenPerms
<1>5. WrittenPerms = [r \in RoleName |-> WrittenPerms[r]]
    BY DEF WrittenPerms
<1>. QED
    BY <1>3, <1>4, <1>5

-----------------------------------------------------------------------------
(* The invariant.                                                          *)

\* A goroutine under way has a sender; it assigns only a role of ValidRoles;
\* and past the check its sender has been a manager of roles.
Underway ==
    \A h \in Handler :
        /\ pc[h] # "idle" => actor[h] \in User
        /\ job[h].op = "assign" => job[h].role \in RoleName
        /\ pc[h] \in {"write", "bind"} => h \in entitled

IInv == TypeOK /\ Underway

\* What the parts of a job are.
LEMMA JobParts ==
    /\ \A j \in Job : /\ j.op \in {"assign", "revoke", "reset", "look"}
                      /\ j.to \in User /\ j.role \in DOMAIN Rules
                      /\ j.op # "assign" /\ j.op # "revoke" => j.role = "viewer"
    /\ NoJob \in Job /\ NoJob.op = "look"
<1>1. "viewer" \in DOMAIN Rules
    BY AccessAssumption DEF RoleName
<1>2. PICK u \in User : u = CHOOSE v \in User : TRUE
    BY AccessAssumption
<1>3. NoJob = [op |-> "look", to |-> u, role |-> "viewer"]
    BY <1>2 DEF NoJob
<1>. QED
    BY <1>1, <1>3 DEF Job, AssignJob, RevokeJob, LookJob

\* Nobody is at work at the start, and the tables are empty.
THEOREM InitInv == Init => IInv
<1>. SUFFICES ASSUME Init PROVE IInv
    OBVIOUS
<1>1. bindings \in Seq(Binding) /\ Len(bindings) = 0
    BY DEF Init
<1>2. TypeOK
    BY <1>1, JobParts, AccessAssumption DEF Init, TypeOK, Stage
<1>3. Underway
    BY JobParts DEF Init, Underway
<1>. QED
    BY <1>2, <1>3 DEF IInv

\* The two halves of the invariant that a step of a handler moves by itself.
LocalOK ==
    /\ pc \in [Handler -> Stage]
    /\ actor \in [Handler -> User \cup {NoOne}]
    /\ job \in [Handler -> Job]
    /\ copy \in [Handler -> RoleName \cup {"none"}]
    /\ \A h \in Handler :
           /\ pc[h] # "idle" => actor[h] \in User
           /\ job[h].op = "assign" => job[h].role \in RoleName

TablesOK ==
    /\ role \in [User -> RoleName \cup {"none"}]
    /\ renamed \subseteq User
    /\ bindings \in Seq(Binding)
    /\ Len(bindings) <= MaxBindings
    /\ known \subseteq DOMAIN Rules

EntitledOK ==
    /\ entitled \subseteq Handler
    /\ \A h \in Handler : pc[h] \in {"write", "bind"} => h \in entitled

LEMMA Halves == IInv <=> LocalOK /\ TablesOK /\ EntitledOK /\ now \in 0..MaxTime
BY DEF IInv, TypeOK, Underway, LocalOK, TablesOK, EntitledOK

LEMMA GotoLocal ==
    ASSUME LocalOK, NEW h \in Handler, NEW s \in Stage, Goto(h, s),
           pc[h] # "idle", copy' \in [Handler -> RoleName \cup {"none"}]
    PROVE  LocalOK'
BY DEF LocalOK, Goto

LEMMA EndsLocal ==
    ASSUME LocalOK, NEW h \in Handler, Ends(h)
    PROVE  LocalOK'
BY JobParts DEF LocalOK, Ends, Stage

LEMMA OnwardLocal ==
    ASSUME LocalOK, NEW h \in Handler, Onward(h), pc[h] # "idle"
    PROVE  LocalOK'
<1>1. CASE Ends(h)
    BY <1>1, EndsLocal
<1>2. CASE Goto(h, "check") /\ copy' = [copy EXCEPT ![h] = "none"]
    <2>1. copy' \in [Handler -> RoleName \cup {"none"}] /\ "check" \in Stage
        BY <1>2 DEF LocalOK, Stage
    <2>. QED
        BY <1>2, <2>1, GotoLocal
<1>. QED
    BY <1>1, <1>2 DEF Onward

\* Whoever gets past the check is a manager there and then.
LEMMA EntitleStep ==
    ASSUME LocalOK, LocalOK', EntitledOK, Entitle,
           \A h \in Handler : pc'[h] \in {"write", "bind"} =>
               pc[h] \in {"write", "bind"} \/ actor'[h] \in Managers'
    PROVE  EntitledOK'
BY DEF EntitledOK, Entitle

LEMMA UpsertTables ==
    ASSUME TablesOK, LocalOK, NEW h \in Handler, Upsert(h), actor[h] \in User
    PROVE  /\ role' \in [User -> RoleName \cup {"none"}]
           /\ renamed' \subseteq User
           /\ \A u \in User : HasRow(u) => role'[u] = role[u]
BY DEF TablesOK, LocalOK, Upsert, HasRow

LEMMA SetRoleTables ==
    ASSUME TablesOK, LocalOK, NEW h \in Handler, SetRole(h),
           job[h].op \in {"assign", "reset"}
    PROVE  /\ role' \in [User -> RoleName \cup {"none"}]
           /\ \A u \in User : role'[u] # role[u] => job[h].to = u /\ job[h].role = role'[u]
<1>1. job[h] \in Job /\ job[h].to \in User /\ job[h].role \in RoleName
    BY JobParts DEF LocalOK, RoleName
<1>. QED
    BY <1>1 DEF TablesOK, SetRole

LEMMA ManagersStay == ASSUME UNCHANGED role PROVE Managers' = Managers
BY DEF Managers, HasPermission, FlatRole, HasRow

\* What a step does to the role of a registered user.
RolesMove ==
    \A u \in User : HasRow(u) /\ role'[u] # role[u] =>
        \E h \in entitled :
            job[h].op \in {"assign", "reset"} /\ job[h].to = u /\ job[h].role = role'[u]

\* Who gets past the check in a step.
Passing ==
    \A h \in Handler : pc'[h] \in {"write", "bind"} =>
        pc[h] \in {"write", "bind"} \/ actor'[h] \in Managers'

Kept == LocalOK' /\ TablesOK' /\ now' \in 0..MaxTime /\ Passing /\ RolesMove

LEMMA OnwardPassing ==
    ASSUME LocalOK, NEW h \in Handler, Onward(h) \/ Ends(h) PROVE Passing
BY DEF LocalOK, Onward, Ends, Goto, Passing

LEMMA GetUserKept == ASSUME IInv, NEW h \in Handler, GetUser(h) PROVE Kept
<1>1. LocalOK /\ TablesOK /\ now \in 0..MaxTime /\ pc[h] = "auth" /\ actor[h] \in User
    BY Halves DEF GetUser, LocalOK
<1>2. TablesOK' /\ now' \in 0..MaxTime /\ RolesMove
    BY <1>1 DEF GetUser, TablesOK, RolesMove, tables
<1>3. CASE Onward(h) \/ Ends(h)
    BY <1>1, <1>2, <1>3, OnwardLocal, EndsLocal, OnwardPassing DEF Kept
<1>4. CASE \E s \in {"register", "rename"} :
              Goto(h, s) /\ \E r \in RoleName \cup {"none"} : copy' = [copy EXCEPT ![h] = r]
    <2>1. PICK s \in {"register", "rename"} :
              Goto(h, s) /\ \E r \in RoleName \cup {"none"} : copy' = [copy EXCEPT ![h] = r]
        BY <1>4
    <2>2. copy' \in [Handler -> RoleName \cup {"none"}]
        BY <1>1, <2>1 DEF LocalOK
    <2>3. LocalOK'
        BY <1>1, <2>1, <2>2, GotoLocal DEF Stage
    <2>4. Passing
        BY <1>1, <2>1 DEF LocalOK, Goto, Passing
    <2>. QED
        BY <1>2, <2>3, <2>4 DEF Kept
<1>5. role[actor[h]] \in RoleName \cup {"none"} /\ "admin" \in RoleName /\ "viewer" \in RoleName
    BY <1>1 DEF TablesOK, RoleName
<1>. QED
    BY <1>3, <1>4, <1>5 DEF GetUser

LEMMA RegisterKept == ASSUME IInv, NEW h \in Handler, Register(h) \/ Rename(h) PROVE Kept
<1>1. /\ LocalOK /\ TablesOK /\ now \in 0..MaxTime /\ pc[h] \in {"register", "rename"}
      /\ actor[h] \in User
    BY Halves DEF Register, Rename, LocalOK
<1>2. LocalOK' /\ Passing
    BY <1>1, OnwardLocal, EndsLocal, OnwardPassing DEF Register, Rename
<1>3. /\ role' \in [User -> RoleName \cup {"none"}]
      /\ renamed' \subseteq User
      /\ \A u \in User : HasRow(u) => role'[u] = role[u]
    <2>1. CASE Upsert(h)
        BY <1>1, <2>1, UpsertTables
    <2>2. CASE UNCHANGED <<role, renamed>>
        BY <1>1, <2>2 DEF TablesOK
    <2>. QED
        BY <2>1, <2>2 DEF Register, Rename
<1>4. TablesOK' /\ now' \in 0..MaxTime /\ RolesMove
    BY <1>1, <1>3 DEF Register, Rename, TablesOK, RolesMove
<1>. QED
    BY <1>2, <1>4 DEF Kept

LEMMA CheckKept == ASSUME IInv, NEW h \in Handler, Check(h) PROVE Kept
<1>1. LocalOK /\ TablesOK /\ now \in 0..MaxTime /\ pc[h] = "check"
    BY Halves DEF Check
<1>2. TablesOK' /\ now' \in 0..MaxTime /\ RolesMove /\ UNCHANGED role
    BY <1>1 DEF Check, TablesOK, RolesMove, tables
<1>3. CASE Ends(h)
    BY <1>1, <1>2, <1>3, EndsLocal, OnwardPassing DEF Kept
<1>4. CASE actor[h] \in Managers /\ Goto(h, "write") /\ UNCHANGED copy
    <2>1. LocalOK'
        BY <1>1, <1>4, GotoLocal DEF LocalOK, Stage
    <2>2. actor'[h] \in Managers'
        BY <1>2, <1>4, ManagersStay DEF Goto
    <2>3. Passing
        BY <1>1, <1>4, <2>2 DEF LocalOK, Goto, Passing
    <2>. QED
        BY <1>2, <2>1, <2>3 DEF Kept
<1>. QED
    BY <1>3, <1>4 DEF Check

\* A write to the column role, by one who is past the check.
LEMMA SetRoleMoves ==
    ASSUME IInv, NEW h \in Handler, pc[h] = "write", job[h].op \in {"assign", "reset"},
           SetRole(h) \/ UNCHANGED role
    PROVE  role' \in [User -> RoleName \cup {"none"}] /\ RolesMove
<1>1. LocalOK /\ TablesOK /\ h \in entitled
    BY Halves DEF EntitledOK
<1>2. CASE SetRole(h)
    BY <1>1, <1>2, SetRoleTables DEF RolesMove
<1>3. CASE UNCHANGED role
    BY <1>1, <1>3 DEF TablesOK, RolesMove
<1>. QED
    BY <1>2, <1>3

LEMMA AssignKept == ASSUME IInv, NEW h \in Handler, Assign(h) PROVE Kept
<1>1. /\ LocalOK /\ TablesOK /\ now \in 0..MaxTime /\ pc[h] = "write"
      /\ job[h].op \in {"assign", "reset"} /\ (SetRole(h) \/ UNCHANGED role)
    BY Halves DEF Assign
<1>2. role' \in [User -> RoleName \cup {"none"}] /\ RolesMove
    BY <1>1, SetRoleMoves
<1>3. TablesOK' /\ now' \in 0..MaxTime
    BY <1>1, <1>2 DEF Assign, TablesOK
<1>4. CASE Ends(h)
    BY <1>1, <1>2, <1>3, <1>4, EndsLocal, OnwardPassing DEF Kept
<1>5. CASE Goto(h, "bind") /\ UNCHANGED copy
    <2>1. LocalOK'
        BY <1>1, <1>5, GotoLocal DEF LocalOK, Stage
    <2>2. Passing
        BY <1>1, <1>5 DEF LocalOK, Goto, Passing
    <2>. QED
        BY <1>2, <1>3, <2>1, <2>2 DEF Kept
<1>. QED
    BY <1>4, <1>5 DEF Assign

LEMMA BindKept == ASSUME IInv, NEW h \in Handler, Bind(h) PROVE Kept
<1>1. LocalOK /\ TablesOK /\ now \in 0..MaxTime /\ job[h] \in Job
    BY Halves DEF LocalOK
<1>2. bindings' \in Seq(Binding) /\ Len(bindings') <= MaxBindings
    <2>. DEFINE b == [user |-> job[h].to, role |-> job[h].role, expires |-> NoExpiry]
    <2>1. b \in Binding
        BY <1>1, JobParts DEF Binding
    <2>2. CASE Len(bindings) < MaxBindings /\ bindings' = Append(bindings, b)
        <3>. HIDE DEF b
        <3>1. Len(bindings') = Len(bindings) + 1 /\ bindings' \in Seq(Binding)
            BY <1>1, <2>1, <2>2 DEF TablesOK
        <3>. QED
            BY <1>1, <2>2, <3>1, AccessAssumption DEF TablesOK
    <2>3. CASE UNCHANGED bindings
        BY <1>1, <2>3 DEF TablesOK
    <2>. QED
        BY <2>2, <2>3 DEF Bind
<1>3. TablesOK' /\ now' \in 0..MaxTime /\ RolesMove
    BY <1>1, <1>2 DEF Bind, TablesOK, RolesMove
<1>4. LocalOK' /\ Passing
    BY <1>1, EndsLocal, OnwardPassing DEF Bind
<1>. QED
    BY <1>3, <1>4 DEF Kept

LEMMA RevokeKept == ASSUME IInv, NEW h \in Handler, Revoke(h) PROVE Kept
<1>1. LocalOK /\ TablesOK /\ now \in 0..MaxTime
    BY Halves
<1>2. bindings' \in Seq(Binding) /\ Len(bindings') <= MaxBindings
    <2>. DEFINE S == {b \in Binding : b.user # job[h].to \/ b.role # job[h].role}
    <2>1. CASE bindings' = Selected(bindings, S)
        <3>. HIDE DEF S
        <3>1. bindings' \in Seq(Binding \cap S) /\ Len(bindings') <= Len(bindings)
            BY <1>1, <2>1, SelectedTypes DEF TablesOK
        <3>2. bindings' \in Seq(Binding)
            BY <3>1
        <3>. QED
            BY <1>1, <3>1, <3>2, AccessAssumption DEF TablesOK
    <2>2. CASE UNCHANGED bindings
        BY <1>1, <2>2 DEF TablesOK
    <2>. QED
        BY <2>1, <2>2 DEF Revoke
<1>3. TablesOK' /\ now' \in 0..MaxTime /\ RolesMove
    BY <1>1, <1>2 DEF Revoke, TablesOK, RolesMove
<1>4. LocalOK' /\ Passing
    BY <1>1, EndsLocal, OnwardPassing DEF Revoke
<1>. QED
    BY <1>3, <1>4 DEF Kept

LEMMA ResetKept == ASSUME IInv, NEW h \in Handler, Reset(h) PROVE Kept
<1>1. /\ LocalOK /\ TablesOK /\ now \in 0..MaxTime /\ pc[h] = "write"
      /\ job[h].op \in {"assign", "reset"} /\ (SetRole(h) \/ UNCHANGED role)
    BY Halves DEF Reset
<1>2. role' \in [User -> RoleName \cup {"none"}] /\ RolesMove
    BY <1>1, SetRoleMoves
<1>3. TablesOK' /\ now' \in 0..MaxTime
    BY <1>1, <1>2 DEF Reset, TablesOK
<1>4. LocalOK' /\ Passing
    BY <1>1, EndsLocal, OnwardPassing DEF Reset
<1>. QED
    BY <1>2, <1>3, <1>4 DEF Kept

LEMMA UpdateKept ==
    ASSUME IInv, NEW h \in Handler, NEW u \in User, NEW j \in Offer, Update(h, u, j) PROVE Kept
<1>1. LocalOK /\ TablesOK /\ now \in 0..MaxTime /\ j \in Job /\ (j.op = "assign" => j.role \in RoleName)
    BY Halves, AccessAssumption
<1>2. LocalOK' /\ Passing
    BY <1>1 DEF LocalOK, Passing, Update, Stage
<1>3. TablesOK' /\ now' \in 0..MaxTime /\ RolesMove
    BY <1>1 DEF Update, TablesOK, RolesMove, tables
<1>. QED
    BY <1>2, <1>3 DEF Kept

LEMMA OutsideKept ==
    ASSUME IInv,
           \/ \E r \in DOMAIN Rules : CreateRole(r)
           \/ \E u \in User : ChangeName(u)
           \/ Tick
           \/ UNCHANGED <<tables, now, local>>
    PROVE  Kept
<1>1. LocalOK /\ TablesOK /\ now \in 0..MaxTime
    BY Halves
<1>2. LocalOK' /\ Passing
    BY <1>1 DEF LocalOK, Passing, CreateRole, ChangeName, Tick, local
<1>3. TablesOK' /\ now' \in 0..MaxTime /\ RolesMove
    BY <1>1, AccessAssumption DEF CreateRole, ChangeName, Tick, TablesOK, RolesMove, tables
<1>. QED
    BY <1>2, <1>3 DEF Kept

LEMMA RestartKept == ASSUME IInv, Restart PROVE Kept
<1>1. LocalOK /\ TablesOK /\ now \in 0..MaxTime
    BY Halves
<1>2. LocalOK' /\ Passing
    BY <1>1, JobParts DEF LocalOK, Passing, Restart, Stage
<1>3. TablesOK' /\ now' \in 0..MaxTime /\ RolesMove
    BY <1>1 DEF Restart, TablesOK, RolesMove, tables
<1>. QED
    BY <1>2, <1>3 DEF Kept

LEMMA AssignRoleKept ==
    ASSUME IInv, NEW u \in User, NEW r \in DOMAIN Rules, NEW t \in 0..MaxTime - 1,
           AssignRole(u, r, t)
    PROVE  Kept
<1>1. LocalOK /\ TablesOK /\ now \in 0..MaxTime
    BY Halves
<1>. DEFINE b == [user |-> u, role |-> r, expires |-> t]
<1>2. b \in Binding
    BY AccessAssumption DEF Binding
<1>3. bindings' = Append(bindings, b) /\ Len(bindings) < MaxBindings
    BY DEF AssignRole
<1>4. bindings' \in Seq(Binding) /\ Len(bindings') <= MaxBindings
    <2>. HIDE DEF b
    <2>1. Len(bindings') = Len(bindings) + 1 /\ bindings' \in Seq(Binding)
        BY <1>1, <1>2, <1>3 DEF TablesOK
    <2>. QED
        BY <1>1, <1>3, <2>1, AccessAssumption DEF TablesOK
<1>5. TablesOK' /\ now' \in 0..MaxTime /\ RolesMove
    BY <1>1, <1>4 DEF AssignRole, TablesOK, RolesMove
<1>6. LocalOK' /\ Passing
    BY <1>1 DEF LocalOK, Passing, AssignRole, local
<1>. QED
    BY <1>5, <1>6 DEF Kept

LEMMA StepKept == ASSUME IInv, [Next]_vars PROVE IInv' /\ RolesMove
<1>1. CASE Next
    <2>1. Kept
        <3>1. ASSUME NEW h \in Handler, Serve(h) PROVE Kept
            BY <3>1, GetUserKept, RegisterKept, CheckKept, AssignKept, BindKept, RevokeKept,
               ResetKept DEF Serve
        <3>2. ASSUME NEW h \in Handler, NEW u \in User, NEW j \in Offer, Update(h, u, j)
              PROVE  Kept
            BY <3>2, UpdateKept
        <3>3. ASSUME NEW r \in DOMAIN Rules \ RoleName, NEW u \in User \ AdminID,
                     NEW t \in 0..MaxTime - 1, AssignRole(u, r, t)
              PROVE  Kept
            BY <3>3, AssignRoleKept
        <3>. QED
            BY <1>1, <3>1, <3>2, <3>3, OutsideKept, RestartKept DEF Next
    <2>2. Entitle
        BY <1>1 DEF Next
    <2>3. EntitledOK'
        BY <2>1, <2>2, Halves, EntitleStep DEF Kept, Passing
    <2>4. IInv'
        BY <2>1, <2>3 DEF Kept, IInv, TypeOK, Underway, LocalOK, TablesOK, EntitledOK
    <2>. QED
        BY <2>1, <2>4 DEF Kept
<1>2. CASE UNCHANGED vars
    <2>1. UNCHANGED <<tables, now, local>> /\ UNCHANGED entitled
        BY <1>2 DEF vars, tables, local
    <2>2. Kept
        BY <2>1, OutsideKept
    <2>3. EntitledOK'
        BY <2>1, Halves DEF EntitledOK, local
    <2>4. IInv'
        BY <2>2, <2>3 DEF Kept, IInv, TypeOK, Underway, LocalOK, TablesOK, EntitledOK
    <2>. QED
        BY <2>2, <2>4 DEF Kept
<1>. QED
    BY <1>1, <1>2

\* The inductive invariant: the types, and that every goroutine past the check of
\* rights has a sender who could manage roles (handleAssignConfirm,
\* handleRevokeConfirm).
THEOREM Invariant == Spec => []IInv
<1>1. Init => IInv
    BY InitInv
<1>2. IInv /\ [Next]_vars => IInv'
    BY StepKept
<1>. QED
    BY <1>1, <1>2, PTL DEF Spec

\* The tables and the goroutines have values of their types: rows only of known
\* users and roles, no more of them than the bound, no goroutine without a sender.
THEOREM TypeCorrect == Spec => []TypeOK
<1>1. IInv => TypeOK
    BY DEF IInv
<1>. QED
    BY <1>1, Invariant, PTL

\* The role of a registered user moves only by right: whatever the order of the
\* goroutines, an assignment or a reset of one who has been a manager since
\* sending it (Auth, Upsert, handleAssignConfirm, handleRevokeConfirm).
THEOREM RolesMoveOnlyByRight == Spec => RolesMoveByRight
<1>1. IInv /\ [Next]_vars =>
          [\A u \in User : HasRow(u) /\ role'[u] # role[u] =>
              \E h \in entitled : job[h].op \in {"assign", "reset"} /\ job[h].to = u
                                  /\ job[h].role = role'[u]]_vars
    BY StepKept DEF RolesMove
<1>. QED
    BY <1>1, Invariant, PTL DEF Spec, RolesMoveByRight

\* A sequence read backwards.
LEMMA Backwards == ASSUME NEW S, NEW s \in Seq(S) PROVE Reverse(s) \in Seq(S)
BY DEF Reverse

LEMMA MeantNow == ASSUME IInv PROVE DecisionsAreMeant
<1>. SUFFICES ASSUME NEW u \in User \ AdminID, NEW req \in Request, NEW lost \in SUBSET known
     PROVE  LET rules == [r \in DOMAIN Rules |-> IF r \in known \ lost THEN Rules[r] ELSE <<>>]
                mine  == Selected(bindings, {b \in Binding : b.user = u})
                flat(perms) == (req.module \o "." \o req.resource \o "." \o req.action)
                                   \in perms[FlatRole(u)]
            IN  \A bs \in {mine, Reverse(mine), <<>>} :
                    Authorize(bs, rules, req, now, flat(BuiltinPerms))
                        = Meant(ToSet(bs), rules, req, now, flat(WrittenPerms))
    BY DEF DecisionsAreMeant
<1>. DEFINE rules == [r \in DOMAIN Rules |-> IF r \in known \ lost THEN Rules[r] ELSE <<>>]
            mine  == Selected(bindings, {b \in Binding : b.user = u})
            flat(perms) == (req.module \o "." \o req.resource \o "." \o req.action)
                               \in perms[FlatRole(u)]
<1>1. bindings \in Seq(Binding) /\ now \in Int
    BY DEF IInv, TypeOK
<1>2. mine \in Seq(Binding)
    <2>. DEFINE S == {b \in Binding : b.user = u}
    <2>1. Selected(bindings, S) \in Seq(Binding \cap S)
        <3>. HIDE DEF S
        <3>. QED
            BY <1>1, SelectedTypes
    <2>. QED
        BY <2>1
<1>3. Reverse(mine) \in Seq(Binding) /\ <<>> \in Seq(Binding)
    <2>. HIDE DEF mine
    <2>. QED
        BY <1>2, Backwards
<1>4. \A r \in DOMAIN Rules : rules[r] \in Seq(ToSet(rules[r]))
    <2>. SUFFICES ASSUME NEW r \in DOMAIN Rules PROVE rules[r] \in Seq(ToSet(rules[r]))
        OBVIOUS
    <2>1. CASE r \in known \ lost
        BY <2>1, AccessAssumption
    <2>2. CASE r \notin known \ lost
        <3>1. rules[r] = <<>>
            BY <2>2
        <3>2. <<>> \in Seq(ToSet(<<>>))
            OBVIOUS
        <3>. QED
            BY <3>1, <3>2
    <2>. QED
        BY <2>1, <2>2
<1>5. flat(BuiltinPerms) \in BOOLEAN /\ flat(BuiltinPerms) = flat(WrittenPerms)
    BY RolesReadTheirOwn
<1>6. \A bs \in {mine, Reverse(mine), <<>>} : bs \in Seq(Binding)
    BY <1>2, <1>3
<1>7. ASSUME NEW bs \in {mine, Reverse(mine), <<>>}
      PROVE  Authorize(bs, rules, req, now, flat(BuiltinPerms))
                 = Meant(ToSet(bs), rules, req, now, flat(BuiltinPerms))
    <2>1. bs \in Seq(Binding)
        BY <1>6
    <2>. DEFINE yes == flat(BuiltinPerms)
    <2>2. yes \in BOOLEAN
        BY <1>5
    <2>. HIDE DEF rules, yes
    <2>3. Authorize(bs, rules, req, now, yes) = Meant(ToSet(bs), rules, req, now, yes)
        BY <1>1, <1>4, <2>1, <2>2, AuthorizeIsMeant
    <2>. QED
        BY <2>3 DEF yes
<1>. HIDE DEF rules, mine, flat
<1>8. \A bs \in {mine, Reverse(mine), <<>>} :
          Authorize(bs, rules, req, now, flat(BuiltinPerms))
              = Meant(ToSet(bs), rules, req, now, flat(WrittenPerms))
    BY <1>5, <1>7
<1>. QED
    BY <1>8 DEF rules, mine, flat

\* What Authorize answers is what the tables mean, in every state, for every
\* order of the rows and every set of roles that cannot be read.
THEOREM AuthorizeDecides == Spec => []DecisionsAreMeant
<1>1. IInv => DecisionsAreMeant
    BY MeantNow
<1>. QED
    BY <1>1, Invariant, PTL
=============================================================================
