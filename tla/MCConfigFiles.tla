---------------------------- MODULE MCConfigFiles ----------------------------
(***************************************************************************)
(* The lines of network_config that the API's ap_key and ap_ssid change.   *)
(***************************************************************************)
EXTENDS ConfigFiles

MCInitial == <<Call("AP_SSID", "s0"), Call("AP_AUTH_MODE", "OPEN"),
               Call("AP_ENCRYPT_TYPE", "NONE"), Call("AP_AUTH_KEY", "k0")>>

\* A proper beginning of a line's name that nabto or param can be asked for.
MCStarts == {<<"AP_SSID", "AP_S">>}

Token(name, value, size) == [name |-> name, value |-> value, size |-> size]
Ssid(value) == Token("ap_ssid", value, 2)
Bad == Token("bad", "x", 1)

\* Keys of every length around the end of the name AP_AUTH_KEY, alone and in
\* front of another token; a key behind one; and what is refused.
WifiTokens ==
    {<<Token("ap_key", "k1", n)>> : n \in {3, 4, 8}}
      \cup {<<Token("ap_key", "k2", n), Ssid("s1")>> : n \in {2, 3, 4}}
      \cup {<<Ssid("s2"), Token("ap_key", "k1", 8)>>, <<Ssid("s1"), Bad>>, <<Bad, Ssid("s1")>>,
            <<Token("ap_key", BadEscape, 3), Ssid("s1")>>}

\* Names with a line, without one, and with a line that is longer.
ParamTokens ==
    {<<Token("AP_SSID", "s2", 2)>>, <<Token("sta_ssid", "s1", 2), Token("AP_SSID", "s1", 2)>>,
     <<Token("AP_S", "s2", 2), Token("AP_SSID", "s1", 2)>>}

Asked(by, seqs) == {[by |-> by, tokens |-> seq] : seq \in seqs}

MCOneWriter == [w \in {"any"} |-> Asked("wifi", WifiTokens) \cup Asked("param", ParamTokens)]

\* The CGI program sets another parameter than the restful server.
MCTwoWriters == [w \in {"rest", "cgi"} |->
                   IF w = "rest" THEN Asked("wifi", {<<Token("ap_key", "k1", 8)>>})
                   ELSE Asked("param", {<<Token("AP_SSID", "s1", 2)>>})]
=============================================================================
