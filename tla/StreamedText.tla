---------------------------- MODULE StreamedText ----------------------------
(***************************************************************************)
(* How an answer becomes text: _collect_text() and _sse_stream() of        *)
(* python/engine/server.py.  The plain answer decodes all its tokens at    *)
(* once; the streamed one decodes again after every token and sends what   *)
(* the text has grown by.                                                  *)
(*                                                                         *)
(* A token stands for bytes, and a character for one byte or for a lead    *)
(* and a trail byte, as in UTF-8; special tokens stand for none.  Chunks   *)
(* without text are left out: they add nothing to what the client joins.   *)
(***************************************************************************)
EXTENDS Integers, Sequences, FiniteSets, SequencesExt

CONSTANTS Ascii, Lead, Trail,  \* bytes
          Tokens,              \* the bytes of each token
          MaxLen,              \* bound: tokens of an answer
          Replacement          \* U+FFFD

VARIABLES answer,    \* the tokens stream_tokens() will yield
          out_ids,   \* those it has yielded
          previous,  \* the text they were decoded to
          joined,    \* the text of the chunks sent
          finished   \* the final chunk is sent

vars == <<answer, out_ids, previous, joined, finished>>

\* The character that starts at byte i: a trail byte that no lead byte precedes and a
\* lead byte without its trail are replaced.
CharAt(bytes, i) ==
    IF bytes[i] \in Ascii THEN <<bytes[i]>>
    ELSE IF bytes[i] \in Lead /\ i < Len(bytes) /\ bytes[i + 1] \in Trail
    THEN <<bytes[i], bytes[i + 1]>> ELSE Replacement

Starts(bytes, i) == ~ (bytes[i] \in Trail /\ i > 1 /\ bytes[i - 1] \in Lead)

\* tokenizer.decode(): the bytes of all tokens, as characters.
Decode(ids) ==
    LET bytes == FlattenSeq(ids)
        starts == SetToSortSeq({i \in DOMAIN bytes : Starts(bytes, i)}, <)
    IN [n \in DOMAIN starts |-> CharAt(bytes, starts[n])]

Init == /\ answer \in UNION {[1..n -> Tokens] : n \in 0..MaxLen}
        /\ out_ids = <<>> /\ previous = <<>> /\ joined = <<>> /\ finished = FALSE

\* One turn of the loop over stream_tokens().
SendDelta ==
    /\ Len(out_ids) < Len(answer)
    /\ out_ids' = Append(out_ids, answer[Len(out_ids) + 1])
    /\ LET text == Decode(out_ids')
           delta == SubSeq(text, Len(previous) + 1, Len(text))
       IN previous' = text /\ joined' = joined \o delta
    /\ UNCHANGED <<answer, finished>>

\* The chunk with the finish reason, which has no text.
SendFinal == /\ out_ids = answer /\ ~ finished /\ finished' = TRUE
             /\ UNCHANGED <<answer, out_ids, previous, joined>>

Closed == finished /\ UNCHANGED vars

Next == SendDelta \/ SendFinal \/ Closed

Spec == Init /\ [][Next]_vars

-----------------------------------------------------------------------------
(* Property *)

\* _collect_text()
PlainText == Decode(answer)

\* What tests/python/test_server.py asserts of one prompt: the chunks of a stream,
\* joined, are the text of the plain answer.
JoinMatchesPlain == finished => joined = PlainText
=============================================================================
