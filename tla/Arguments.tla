----------------------------- MODULE Arguments ------------------------------
(***************************************************************************)
(* The numbers on their way to a device: automation parameters, behaviour- *)
(* tree arguments and the router's coercion and validation against the     *)
(* function's specification.                                               *)
(*                                                                         *)
(* Integers have Bits bits and doubles Exact bits of significand, in place *)
(* of 64 and 53.  A number is counted in halves, so that 2.5 is 5; an      *)
(* integer is even.                                                        *)
(***************************************************************************)
EXTENDS Integers, FiniteSets

CONSTANTS Bits, Exact

ASSUME WidthAssumption == Bits \in Nat /\ Exact \in Nat /\ 1 < Exact /\ Exact < Bits - 1

Int64 == {2 * n : n \in -(2 ^ (Bits - 1)) .. 2 ^ (Bits - 1) - 1}
UInt64 == {2 * n : n \in 0 .. 2 ^ Bits - 1}
MaxExactDouble == 2 * 2 ^ Exact

\* The numbers a type is written with; a double is written as an integer or with a half.
Fits(type) == CASE type = "int64" -> Int64 [] type = "uint64" -> UInt64 [] OTHER -> Int64 \cup UInt64

Abs(n) == IF n < 0 THEN -n ELSE n

\* The double nearest to n, ties to the even significand.
ToDouble(n) ==
    IF Abs(n) <= MaxExactDouble THEN n
    ELSE LET k == CHOOSE i \in 1..Bits : Abs(n) <= 2 ^ i * MaxExactDouble /\ Abs(n) > 2 ^ (i - 1) * MaxExactDouble
             unit == 2 * 2 ^ k
             below == Abs(n) \div unit
             over == Abs(n) % unit
             near == IF 2 * over > unit \/ (2 * over = unit /\ below % 2 = 1) THEN below + 1 ELSE below
         IN IF n < 0 THEN -(near * unit) ELSE near * unit

\* Two's complement.
WrapInt64(n) == LET m == (n \div 2) % 2 ^ Bits IN 2 * (IF m < 2 ^ (Bits - 1) THEN m ELSE m - 2 ^ Bits)

Refused == [type |-> "refused", num |-> 0]
Value(type, num) == [type |-> type, num |-> num]

-----------------------------------------------------------------------------
(* CallRouter.  A specification of one argument has a type and, for the    *)
(* numeric ones, inclusive bounds.                                         *)


\* coerce_arguments: widening only, refused when the number does not fit.
Coerce(spec, v) ==
    CASE spec.type = "uint64" /\ v.type = "int64" ->
            IF v.num < 0 THEN Refused ELSE Value("uint64", v.num)
      [] spec.type = "int64" /\ v.type = "uint64" ->
            IF v.num > 2 * (2 ^ (Bits - 1) - 1) THEN Refused ELSE Value("int64", v.num)
      [] spec.type = "double" /\ v.type \in {"int64", "uint64"} ->
            IF Abs(v.num) > MaxExactDouble THEN Refused ELSE Value("double", v.num)
      [] OTHER -> v

\* validate_argument_type and validate_argument_range.
Validates(spec, v) ==
    /\ v.type = spec.type
    /\ v.type \in {"int64", "uint64", "double"} => spec.min <= v.num /\ v.num <= spec.max

\* What the provider is sent for one argument.
Admit(spec, v) ==
    LET c == Coerce(spec, v) IN IF c # Refused /\ Validates(spec, c) THEN c ELSE Refused

\* decode_value of POST /v0/call, on {"type": type, type: j}: get<T>() converts as C++ does.
DecodeValue(type, j) ==
    LET whole == IF j.num < 0 THEN -2 * (-j.num \div 2) ELSE 2 * (j.num \div 2) IN
    CASE type = "int64" /\ j.type \in {"integer", "float"} -> Value(type, WrapInt64(whole))
      [] type = "uint64" /\ j.type \in {"integer", "float"} -> Value(type, whole % (2 * 2 ^ Bits))
      [] type = "double" /\ j.type \in {"integer", "float"} -> Value(type, ToDouble(j.num))
      [] type \in {"bool", "string", "bytes"} /\ j.type = type -> j
      [] OTHER -> Refused

-----------------------------------------------------------------------------
(* ParameterManager and the nodes between a parameter and a call.          *)

\* handle_post_parameters: the JSON value as the parameter's type.
PostParameter(type, j) ==
    CASE type = "double" /\ j.type \in {"integer", "float"} -> Value("double", ToDouble(j.num))
      [] type = "int64" /\ j.type = "integer" -> Value("int64", WrapInt64(j.num))
      [] type \in {"bool", "string"} /\ j.type = type -> j
      [] OTHER -> Refused

\* ParameterDef::validate: the bounds are doubles, and an int64 is compared as one.
ParameterValid(def, v) ==
    /\ v.type = def.type
    /\ v.type \in {"double", "int64"} =>
          def.min <= ToDouble(v.num) /\ ToDouble(v.num) <= def.max

\* GetParameterNode: numeric parameters only, as a double.
GetParameter(v) == IF v.type \in {"double", "int64"} THEN Value("double", ToDouble(v.num)) ELSE Refused

\* GetParameterBoolNode and GetParameterInt64Node.
GetTyped(type, v) == IF v.type = type THEN v ELSE Refused

\* llround() of a number no int64 holds is unspecified: either end of the range.
LLRound(n) == IF 2 * ((n + 1) \div 2) \in Int64 THEN {2 * ((n + 1) \div 2)}
              ELSE {-(2 ^ Bits), 2 * (2 ^ (Bits - 1) - 1)}

\* BuildArgsJsonNode on a numeric slot: the JSON it may write.
BuildArg(type, v) ==
    IF v = Refused THEN {Refused}
    ELSE CASE type = "int64" -> {IF ToDouble(r) = v.num THEN Value("integer", r) ELSE Refused : r \in LLRound(v.num)}
           [] type \in {"double", ""} -> {Value("float", v.num)}
           [] OTHER -> {Refused}

\* CallDeviceNode: a JSON integer is taken as int64, whatever its sign and size.
FromJson(j) ==
    CASE j.type = "integer" -> Value("int64", WrapInt64(j.num))
      [] j.type = "float" -> Value("double", j.num)
      [] j.type \in {"bool", "string"} -> j
      [] OTHER -> Refused

=============================================================================
