---------------------------- MODULE SchemaProofs ----------------------------
(***************************************************************************)
(* Lemmas about the values and the validation of Schemas, for any users,   *)
(* request ids and functions that devices may have.                        *)
(***************************************************************************)
EXTENDS Schemas, TLAPS

-----------------------------------------------------------------------------
(* Values *)

LEMMA TextInjective ==
  ASSUME NEW v, NEW w, Text(v) = Text(w)
  PROVE  v = w
<1>1. {v} = {w}
  BY DEF Text, Value
<1>2. QED
  BY <1>1

\* What tells the values of one JavaScript type from those of another.
LEMMA Kinds ==
  /\ \A w : Text(w).is = "string" /\ Text(w).of = {w}
  /\ \A S : List(S).is = "array" /\ List(S).of = S
  /\ Undefined.is = "undefined" /\ Undefined.of = {}
  /\ Null.is = "null"
  /\ True.is = "boolean" /\ False.is = "boolean"
  /\ Object.is = "object"
  /\ \A n : Number(n).is = "number" /\ Number(n).value = n
  BY DEF Text, List, Value, Undefined, Null, True, False, Object, Number

\* A number is no other value.
LEMMA NumberIs ==
  ASSUME NEW n
  PROVE  /\ \A w : Number(n) # Text(w)
         /\ Number(n) \notin {Undefined, Null, True, False}
         /\ \A k : Number(n) = Number(k) => n = k
  BY Kinds

LEMMA AreValues ==
  /\ {Undefined, Null, True, False, Object} \subseteq Values
  /\ IsNumber \subseteq Values
  /\ \A w \in Words : Text(w) \in Values
  /\ \A S \in SUBSET (DeviceCapabilities \cup {"other"}) : List(S) \in Values
  BY DEF Values, Strings, Arrays, IsNumber

LEMMA AreWords ==
  /\ {"", "other", "d1", "mqtt", "carrier pigeon"} \subseteq Words
  /\ Users \subseteq Words /\ Requests \subseteq Words
  /\ ConnectionState \subseteq Words /\ ProvisionState \subseteq Words
  BY DEF Words

LEMMA DecoratorsAccept ==
  /\ RequiredStringApiProperty \subseteq Values
  /\ RequiredNumberApiProperty \subseteq Values
  /\ OptionalStringApiProperty \subseteq Values
  /\ OptionalNumberApiProperty \subseteq Values
  /\ IsOptional(IsBoolean) \subseteq Values
<1>1. IsString \subseteq Values /\ IsNumber \subseteq Values
        /\ IsBoolean \subseteq Values
  BY AreValues DEF IsString, Strings, IsBoolean
<1>2. Undefined \in Values /\ Null \in Values
  BY AreValues
<1>3. QED
  BY <1>1, <1>2 DEF RequiredStringApiProperty, RequiredNumberApiProperty,
       OptionalStringApiProperty, OptionalNumberApiProperty, IsOptional

-----------------------------------------------------------------------------
(* Validation *)

\* A property a decorator asks for is there.
LEMMA Present ==
  ASSUME NEW body, NEW Dto, NEW x \in DOMAIN Dto,
         Satisfies(body, Dto), Undefined \notin Dto[x]
  PROVE  body[x] \in Dto[x]
  BY DEF Satisfies, Get

\* The right body has a right value wherever there is one that is not left
\* out.
LEMMA RightIs ==
  ASSUME NEW Dto, NEW x \in DOMAIN Dto,
         \E v \in Dto[x] : v \notin {Undefined, Null}
  PROVE  Right(Dto)[x] \in Dto[x]
  BY DEF Right

\* What is sent consists of values, if the right body does.
LEMMA BodiesValued ==
  ASSUME NEW D, NEW right \in [D -> Values], NEW extra,
         NEW body \in Bodies(right, extra), NEW z \in DOMAIN body
  PROVE  body[z] \in Values
<1>1. Faults \subseteq Values
  <2>1. Text("") \in Values /\ Text("other") \in Values
          /\ List({}) \in Values /\ List({"other"}) \in Values
    BY AreValues, AreWords
  <2>2. QED
    BY <2>1, AreValues DEF Faults
<1>2. body \in {right} \cup OneWrong(right) \cup OneMore(right, extra)
  BY DEF Bodies
<1>3. CASE body = right
  BY <1>3
<1>4. CASE body \in OneWrong(right)
  BY <1>1, <1>4 DEF OneWrong
<1>5. CASE body \in OneMore(right, extra)
  <2>1. PICK y \in extra : body = Spread(right, [x \in {y} |-> Object])
    BY <1>5 DEF OneMore
  <2>2. QED
    BY <2>1, AreValues DEF Spread
<1>6. QED
  BY <1>2, <1>3, <1>4, <1>5
=============================================================================
