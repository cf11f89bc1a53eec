---------------------------- MODULE Quantization ----------------------------
(***************************************************************************)
(* Weight-only int8: src/quant/quant.cpp and its use by Model::quantize()  *)
(* and Model::linear_w() of src/model/model.cpp.  A projection is one      *)
(* weight matrix; a row of it is quantized against its own greatest        *)
(* magnitude.                                                              *)
(*                                                                         *)
(* Weights and activations are small integers, a scale amax / Levels is    *)
(* represented by its numerator, and an int8 result by its exact value     *)
(* times Levels; the scale 1 of a zero row is the numerator Levels.        *)
(***************************************************************************)
EXTENDS Integers, Sequences, FiniteSets, FiniteSetsExt

CONSTANTS Names,       \* projections, in the order quantize() walks them
          Other,       \* a weight quantize() leaves alone
          Rows, Cols,  \* shape of every weight
          Matrices,    \* weights: functions over row-major offsets
          Inputs,      \* activations: functions over columns
          Levels       \* 127

Projections == {Names[i] : i \in DOMAIN Names}

NamesAssumption == Other \notin Projections
LevelsAssumption == Levels \in Nat \ {0}
ShapeAssumption == /\ Rows \in Nat /\ Cols \in Nat \ {0}
                   /\ Matrices \subseteq [0..(Rows * Cols - 1) -> Int]
                   /\ Inputs \subseteq [0..(Cols - 1) -> Int]

VARIABLES weights,    \* weights_: name -> matrix; a file may lack some
          quant,      \* quant_: name -> [data, amax]
          quantized,  \* quantized_
          at,         \* projection quantize() is at; 0 when it does not run
          call        \* the last linear_w(): [name, x, y], or None

vars == <<weights, quant, quantized, at, call>>

None == [name |-> "none"]

-----------------------------------------------------------------------------

Abs(n) == IF n < 0 THEN 0 - n ELSE n
Offset(o, i) == o * Cols + i

\* Mutant of Magnitude: signs are not dropped before the maximum.
MagnitudeSigned(m, o) == Max({m[Offset(o, i)] : i \in 0..(Cols - 1)} \cup {0})

\* The greatest magnitude of row o.
Magnitude(m, o) == Max({Abs(m[Offset(o, i)]) : i \in 0..(Cols - 1)})

ScaleOf(m, o) == IF Magnitude(m, o) > 0 THEN Magnitude(m, o) ELSE Levels

\* lround(w / scale): to the nearest, halves away from zero; then the clamp.
Round(w, amax) == LET r == (2 * Abs(w) * Levels + amax) \div (2 * amax)
                  IN IF w < 0 THEN 0 - r ELSE r
Clamp(r) == IF r > Levels THEN Levels ELSE IF r < 0 - Levels THEN 0 - Levels ELSE r

\* quantize_rowwise_int8()
Quantize(m) == [data |-> [c \in DOMAIN m |-> Clamp(Round(m[c], ScaleOf(m, c \div Cols)))],
                amax |-> [o \in 0..(Rows - 1) |-> ScaleOf(m, o)]]

Dot(x, m, o) == MapThenSumSet(LAMBDA i : x[i] * m[Offset(o, i)], 0..(Cols - 1))

\* linear() and linear_int8(), both times Levels.
Linear(x, m) == [o \in 0..(Rows - 1) |-> Levels * Dot(x, m, o)]
LinearInt8(x, q) == [o \in 0..(Rows - 1) |-> Dot(x, q.data, o) * q.amax[o]]

-----------------------------------------------------------------------------

Init == /\ weights \in UNION {[S -> Matrices] : S \in {Projections \cup {Other},
                                                       {Names[1], Other}}}
        /\ quant = <<>> /\ quantized = FALSE /\ at = 0 /\ call = None

\* quantize() is called, the first time or again.
Begin == /\ at = 0 /\ at' = 1
         /\ UNCHANGED <<weights, quant, quantized, call>>

\* One projection: emplace() keeps an entry that is there.
QuantizeOne ==
    /\ at \in DOMAIN Names /\ Names[at] \in DOMAIN weights
    /\ quant' = [n \in DOMAIN quant \cup {Names[at]} |->
                   IF n \in DOMAIN quant THEN quant[n] ELSE Quantize(weights[n])]
    /\ at' = at + 1
    /\ UNCHANGED <<weights, quantized, call>>

\* The weight is missing: get() throws out of quantize().
QuantizeThrows == /\ at \in DOMAIN Names /\ Names[at] \notin DOMAIN weights
                  /\ at' = 0
                  /\ UNCHANGED <<weights, quant, quantized, call>>

QuantizeDone == /\ at > Len(Names)
                /\ quantized' = TRUE /\ at' = 0
                /\ UNCHANGED <<weights, quant, call>>

\* linear_w(): int8 for what is quantized once all of it is.
LinearW(name, x) ==
    /\ at = 0 /\ name \in DOMAIN weights
    /\ call' = [name |-> name, x |-> x,
                y |-> IF quantized /\ name \in DOMAIN quant
                      THEN LinearInt8(x, quant[name]) ELSE Linear(x, weights[name])]
    /\ UNCHANGED <<weights, quant, quantized, at>>

Next == \/ Begin \/ QuantizeOne \/ QuantizeThrows \/ QuantizeDone
        \/ \E name \in Projections \cup {Other}, x \in Inputs : LinearW(name, x)

Spec == Init /\ [][Next]_vars

-----------------------------------------------------------------------------
(* Properties *)

\* "The default model stays exact", also when quantize() threw half way, and so does
\* what is no projection; a quantized projection is off by at most half a scale of its
\* row for every unit of activation: "dequantized weight within half a scale of the
\* original".
TracksFp32 == call # None =>
    LET exact == Linear(call.x, weights[call.name])
        mass == MapThenSumSet(LAMBDA i : Abs(call.x[i]), 0..(Cols - 1))
    IN \A o \in 0..(Rows - 1) :
         2 * Abs(call.y[o] - exact[o]) <=
            IF quantized /\ call.name \in Projections
            THEN mass * ScaleOf(weights[call.name], o) ELSE 0
=============================================================================
