--------------------------- MODULE MCRecommendation ---------------------------
(* Two analyzers that agree, and an answer that may be cautious.           *)
EXTENDS Recommendation

AllAgree ==
    [{"technical_analyzer", "news_analyzer"} ->
        [direction : {-1, 0, 1}, sufficiency : {"sufficient", "partial"}]]
=============================================================================
