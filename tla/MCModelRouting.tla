--------------------------- MODULE MCModelRouting --------------------------
(***************************************************************************)
(* TLC instance of ModelRouting: the first edit removes the compression    *)
(* proxy, the second puts it back without its fallback and switches the    *)
(* smart tools off.                                                        *)
(***************************************************************************)
EXTENDS ModelRouting

CONSTANTS LiteLLM, Headroom

MCSettings(smart, proxied, fallback) ==
    [smart_tools_enabled |-> smart, litellm_base_url |-> LiteLLM, headroom_enabled |-> proxied,
     headroom_base_url |-> IF proxied THEN Headroom ELSE NoUrl, headroom_fallback |-> fallback]

MCSettingsOf ==
    [v \in 0..MaxWrites |-> CASE v = 0 -> MCSettings(TRUE, TRUE, TRUE)
                              [] v = 1 -> MCSettings(TRUE, FALSE, TRUE)
                              [] OTHER -> MCSettings(FALSE, TRUE, FALSE)]

MCUrls == {LiteLLM, Headroom}
=============================================================================
