------------------------------ MODULE MultiDev ------------------------------
(***************************************************************************)
(* bl and ch of preinit (init/init.c, multidev): one line makes a family   *)
(* of devices, whose names and minor numbers run through the ranges of the *)
(* fields of a rule, like hd[c,a-d,64][I,0-16,1].                          *)
(*                                                                         *)
(* A name is the sequence of the values of its fields; the constant text   *)
(* between them is left out.  Numbers and minors are bytes.                *)
(***************************************************************************)
EXTENDS Integers, Sequences

CONSTANTS
  Byte,     \* 256
  Rules,    \* sequences of fields: [type, ranges, scale]
  Bases     \* minors of the first device

Octet == 0 .. Byte - 1

ASSUME ByteAssumption == Byte \in Nat \ {0}
ASSUME RulesAssumption ==
  Rules \subseteq Seq([type : {"c", "h", "i", "I", "none"},
                       ranges : Seq(Octet \X Octet) \ {<<>>}, scale : Nat])
ASSUME BasesAssumption == Bases \subseteq Nat

Numeric == {"h", "i", "I"}

VARIABLES
  rule, base,
  var,      \* of each field: the range at hand, its value and its index
  made,     \* the devices, in order: [name, minor]
  field,    \* the field to increment
  mdpc

mdvars == <<rule, base, var, made, field, mdpc>>

AtFirst(f) == [range |-> 1, value |-> f.ranges[1][1], index |-> 0]

(* A field without a known type stays as it is and adds nothing.           *)
MultiInit ==
  /\ rule \in Rules
  /\ base \in Bases
  /\ var = [f \in DOMAIN rule |-> AtFirst(rule[f])]
  /\ made = <<>>
  /\ field = 1
  /\ mdpc = "make"

(* What a field adds to the minor: its rank in the set of characters, or    *)
(* its distance from the lower bound.                                      *)
Offset(f) ==
  CASE rule[f].type = "c" -> var[f].index * rule[f].scale
    [] rule[f].type \in Numeric -> (var[f].value - rule[f].ranges[1][1]) * rule[f].scale
    [] OTHER -> 0

(* The sums of the first terms. *)
Partials(terms) ==
  LET sum[n \in 0 .. Len(terms)] == IF n = 0 THEN 0 ELSE sum[n - 1] + terms[n] IN sum
Total(terms) == Partials(terms)[Len(terms)]

MinorOffset == Total([f \in DOMAIN rule |-> Offset(f)])

Make ==
  /\ mdpc = "make"
  /\ made' = Append(made, [name |-> [f \in DOMAIN rule |-> var[f].value],
                           minor |-> (base + MinorOffset) % Byte])
  /\ field' = 1
  /\ mdpc' = "increment"
  /\ UNCHANGED <<rule, base, var>>

(* Characters: to the next of the range, then to the next range, and from  *)
(* the last one back to the first with a carry.                            *)
NextChar(f) ==
  LET v == var[f]  ranges == rule[f].ranges
  IN CASE v.value < ranges[v.range][2] ->
            [v EXCEPT !.value = @ + 1, !.index = @ + 1]
       [] v.value >= ranges[v.range][2] /\ v.range < Len(ranges) ->
            [range |-> v.range + 1, value |-> ranges[v.range + 1][1], index |-> v.index + 1]
       [] OTHER -> AtFirst(rule[f])

(* Mutant: a number does not go past the width of a byte. *)
NextNumberUp(f) ==
  LET r == rule[f].ranges[1]
  IN [var[f] EXCEPT !.value = IF @ >= r[2] THEN r[1] ELSE @ + 1]

(* Numbers go up to the upper bound, past 255 to 0 if it is the smaller.   *)
NextNumber(f) ==
  LET r == rule[f].ranges[1]
  IN [var[f] EXCEPT !.value = IF @ = r[2] THEN r[1] ELSE (@ + 1) % Byte]

Carries(f) ==
  CASE rule[f].type = "c" ->
         var[f].range = Len(rule[f].ranges) /\ var[f].value >= rule[f].ranges[var[f].range][2]
    [] rule[f].type \in Numeric -> var[f].value = rule[f].ranges[1][2]
    [] OTHER -> TRUE

Next1(f) ==
  CASE rule[f].type = "c" -> NextChar(f)
    [] rule[f].type \in Numeric -> NextNumber(f)
    [] OTHER -> var[f]

(* Mutant: a carry is not passed on. *)
IncrementOne ==
  /\ mdpc = "increment"
  /\ field <= Len(rule)
  /\ var' = [var EXCEPT ![field] = Next1(field)]
  /\ IF Carries(field) /\ field = Len(rule)
     THEN mdpc' = "done" /\ UNCHANGED field
     ELSE mdpc' = "make" /\ UNCHANGED field
  /\ UNCHANGED <<rule, base, made>>

(* The fields from the first on, as long as they carry.                    *)
Increment ==
  /\ mdpc = "increment"
  /\ field <= Len(rule)
  /\ var' = [var EXCEPT ![field] = Next1(field)]
  /\ IF Carries(field)
     THEN field' = field + 1 /\ UNCHANGED mdpc
     ELSE mdpc' = "make" /\ UNCHANGED field
  /\ UNCHANGED <<rule, base, made>>

(* The field after the last carries or not: it ends in either case.        *)
Overflow ==
  /\ mdpc = "increment"
  /\ field > Len(rule)
  /\ mdpc' = "done"
  /\ UNCHANGED <<rule, base, var, made, field>>

MultiNext == Make \/ Increment \/ Overflow

MultiSpec == MultiInit /\ [][MultiNext]_mdvars

----------------------------------------------------------------------------
(* The reference: the values of a field in order, and the k-th device, in  *)
(* which the first field changes fastest.                                  *)
Span(lo, hi) == IF hi >= lo THEN hi - lo + 1 ELSE 1
Run(r) == [k \in 1 .. Span(r[1], r[2]) |-> r[1] + k - 1]
Chars(ranges) ==
  LET chars[n \in 0 .. Len(ranges)] ==
        IF n = 0 THEN <<>> ELSE chars[n - 1] \o Run(ranges[n])
  IN chars
Numbers(lo, hi) == [k \in 1 .. ((hi - lo) % Byte) + 1 |-> (lo + k - 1) % Byte]
Values(f) ==
  CASE f.type = "c" -> Chars(f.ranges)[Len(f.ranges)]
    [] f.type \in Numeric -> Numbers(f.ranges[1][1], f.ranges[1][2])
    [] OTHER -> <<f.ranges[1][1]>>

(* The devices that the first fields make. *)
Counts ==
  LET count[n \in 0 .. Len(rule)] ==
        IF n = 0 THEN 1 ELSE count[n - 1] * Len(Values(rule[n]))
  IN count
Digit(k, f) == ((k - 1) \div Counts[f - 1]) % Len(Values(rule[f]))

Share(k, f) ==
  IF rule[f].type \in Numeric \cup {"c"} THEN Digit(k, f) * rule[f].scale ELSE 0
Expected(k) == [name |-> [f \in DOMAIN rule |-> Values(rule[f])[Digit(k, f) + 1]],
                minor |-> (base + Total([f \in DOMAIN rule |-> Share(k, f)])) % Byte]

(* The devices made are those of the ranges, each once and in order, with  *)
(* the minor their fields count to, although values and minors are bytes   *)
(* and a range may go past the last one.                                   *)
AllDevices ==
  /\ \A k \in {Len(made)} \ {0} : made[k] = Expected(k)
  /\ mdpc = "done" => Len(made) = Counts[Len(rule)]
=============================================================================
