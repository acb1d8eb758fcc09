---------------------------- MODULE ModelReplies ----------------------------
(***************************************************************************)
(* What the LLM evaluator makes of the text a model answers with           *)
(* (rainbow/evaluation/llm_evaluator.py, models.py).                       *)
(*                                                                         *)
(* A text is read in three places: as a whole, in its first code fence and *)
(* in its first balanced pair of braces.  The fields of the object that is *)
(* found fall into groups which are read alike; a reply tells the state of *)
(* the worst field of each group.                                          *)
(***************************************************************************)
CONSTANT Confidence   \* what ai_confidence may be, in thousandths

Places == {"whole", "fence", "braces"}

\* Missing, null, of another kind or none of the words allowed, out of range.
States == {"fine", "missing", "null", "malformed", "excessive"}

\* What makes AIEvaluation or the conversion before it raise.  Sizes and
\* completeness have a range, the leverage has none; notes are optional texts and
\* lists.  A number, word or list of the older fields may be missing, not null.
Refused ==
  [number |-> {"null", "malformed", "excessive"},
   word   |-> {"null", "malformed"},
   list   |-> {"null", "malformed"},
   text   |-> {},
   size   |-> {"excessive"},
   note   |-> {}]

Fields == DOMAIN Refused

Replies ==
  [object : SUBSET Places, state : [Fields -> States], confidence : Confidence]

-----------------------------------------------------------------------------
\* An object that stands in one place hides the others, and any of them does.
Parsed(reply) == reply.object # {}

Accepted(reply) == \A f \in Fields : reply.state[f] \notin Refused[f]

\* Fields that fall back give the evaluation the value of their default.
Verdict(confidence, quality) == [confidence |-> confidence, quality |-> quality]

SafeDefault    == Verdict(0, "weak")
NeutralVerdict == Verdict(500, "usable")

Given(reply) ==
  Verdict(IF reply.state.number = "missing" THEN 0 ELSE reply.confidence,
          IF reply.state.word = "missing" THEN "usable" ELSE "given")

\* Whether the reply ends in an evaluation, and in which one.
Usable(reply) == Parsed(reply) => Accepted(reply)

Build(reply) == IF Parsed(reply) THEN Given(reply) ELSE SafeDefault
=============================================================================
