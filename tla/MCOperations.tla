----------------------------- MODULE MCOperations -----------------------------
(***************************************************************************)
(* What surrounds the answering of questions, for TLC: accounts and their  *)
(* refresh tokens, the rate limiter, replay runs, AI configuration         *)
(* versions, feedback review and the quality reports. They share no state, *)
(* so a behaviour exercises one of them, chosen by `exercised`, while the  *)
(* others stay as they began; their sets of model values are shared.       *)
(***************************************************************************)
EXTENDS RefreshTokens, RateLimiter, ReplayRun, ConfigVersions, FeedbackReview,
        QualityReports, TLC

Kinds == {<<"negative", TRUE>>, <<"positive", FALSE>>}
Vectors == {<<1, 0>>, <<0, 1>>, <<1, 1>>}
Opposites == {<<1, 0>>, <<-1, 0>>}

Interchangeable == Permutations(ConfigVersionIds) \cup Permutations(Resolvers)

VARIABLE exercised

accessVars == <<authVars, rateVars>>
reviewVars == <<feedbackVars, gapVars>>
vars == <<accessVars, replayVars, configVars, reviewVars, exercised>>

MCInit ==
    /\ exercised \in {"auth", "rate", "replay", "config", "feedback", "quality"}
    /\ AuthInit /\ RateInit /\ ReplayInit /\ ConfigInit /\ FeedbackInit /\ GapInit
    /\ exercised # "auth" => registration = "open"

StepAuth ==
    /\ exercised = "auth" /\ AuthNext
    /\ UNCHANGED <<rateVars, replayVars, configVars, reviewVars, exercised>>
StepRate ==
    /\ exercised = "rate" /\ RateNext
    /\ UNCHANGED <<authVars, replayVars, configVars, reviewVars, exercised>>
StepReplay ==
    /\ exercised = "replay" /\ ReplayNext
    /\ UNCHANGED <<accessVars, configVars, reviewVars, exercised>>
StepConfig ==
    /\ exercised = "config" /\ ConfigNext
    /\ UNCHANGED <<accessVars, replayVars, reviewVars, exercised>>
StepFeedback ==
    /\ exercised = "feedback" /\ FeedbackNext
    /\ UNCHANGED <<accessVars, replayVars, configVars, gapVars, exercised>>
StepQuality ==
    /\ exercised = "quality" /\ GapNext
    /\ UNCHANGED <<accessVars, replayVars, configVars, feedbackVars, exercised>>

MCNext ==
    \/ StepAuth \/ StepRate \/ StepReplay \/ StepConfig \/ StepFeedback \/ StepQuality

MCSpec == MCInit /\ [][MCNext]_vars
===============================================================================
