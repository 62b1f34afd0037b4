------------------------------- MODULE Config -------------------------------
(***************************************************************************)
(* The upstream setting (src/src/config.cpp, the setting commands of       *)
(* controller.cpp and interactiveSetting of main.cpp).  A text is a        *)
(* sequence of tokens: a character the code looks at, "a" for any other,   *)
(* and texts of digits.  The scheme is left out: any but socks5 is         *)
(* refused, by both parsers.                                               *)
(***************************************************************************)
EXTENDS Naturals, Sequences, SequencesExt, FiniteSetsExt

CONSTANTS
    Texts,      \* what a user types or an administrator writes
    Numbers,    \* texts of digits from 1 to 65535
    MaxHost,    \* 253
    Clients     \* who may be in the dialogue of `tunproxy setting`

\* std::isspace: "blank" is any of the four that isValidHost refuses, "feed" of the two it does not.
Space == {"blank", "feed"}
Nothing == <<>>
Failed  == [host |-> <<>>, port |-> <<>>]

Has(text, token) == \E i \in DOMAIN text : text[i] = token
trim(text) ==
    LET kept == {i \in DOMAIN text : text[i] \notin Space}
    IN  IF kept = {} THEN <<>> ELSE SubSeq(text, Min(kept), Max(kept))

isValidHost(host) ==
    host # <<>> /\ Len(host) <= MaxHost /\ ~Has(host, "blank") /\ ~Has(host, "/") /\ host # <<".">>
validateUpstream(u) ==
    IF isValidHost(u.host) /\ Len(u.port) = 1 /\ u.port[1] \in Numbers THEN u ELSE Failed

Split(text, i, j) == [host |-> SubSeq(text, i, j - 1), port |-> SubSeq(text, j + 1, Len(text))]
\* What follows the scheme: [host]:port to the first bracket, or host:port to the last colon.
parseUpstreamUri(text) ==
    LET closing == {i \in DOMAIN text : text[i] = "]"}
        colons  == {i \in DOMAIN text : text[i] = ":"}
    IN  IF text # <<>> /\ Head(text) = "["
        THEN IF closing # {} /\ Min(closing) + 1 \in colons
             THEN validateUpstream([host |-> SubSeq(text, 2, Min(closing) - 1),
                                    port |-> SubSeq(text, Min(closing) + 2, Len(text))])
             ELSE Failed
        ELSE IF colons # {} /\ ~Has(SubSeq(text, 1, Max(colons) - 1), ":")
             THEN validateUpstream(Split(text, 1, Max(colons)))
             ELSE Failed

Bracketed(host) == IF Has(host, ":") THEN <<"[">> \o host \o <<"]">> ELSE host
formatUpstreamUri(u) == Bracketed(u.host) \o <<":">> \o u.port

-----------------------------------------------------------------------------
VARIABLES
    config,    \* the values of the lines host= and port= of /etc/tunproxy/config
    saved,     \* the program wrote it last
    told,      \* what the setting answered that wrote it
    shown      \* of a client in the dialogue of `tunproxy setting`: the current setting, or Failed

vars == <<config, saved, told, shown>>

\* ConfigManager::load and save.  The second and later lines of a key replace the first; unknown
\* keys and lines without = are errors, as missing keys are, and stand behind Failed.
load(file) == validateUpstream([host |-> trim(file.host), port |-> trim(file.port)])
\* Mutant of save: the host goes to the file the way a URI has it.
saveUri(u) == [host |-> Bracketed(u.host), port |-> u.port]
save(u) == [host |-> u.host, port |-> u.port]

Init ==
    /\ config = Failed /\ saved = FALSE /\ told = Failed
    /\ shown = [c \in Clients |-> Failed]

\* SetSetting of the controller; one runs at a time, under the operation lock.
SetSetting(uri) ==
    LET u == parseUpstreamUri(uri) IN
    IF u = Failed THEN UNCHANGED <<config, saved, told>>
    ELSE config' = save(u) /\ saved' = TRUE /\ told' = u

\* tunproxy setting <uri>
Command(uri) == SetSetting(uri) /\ UNCHANGED shown

\* tunproxy setting: GetSetting and the prompts, ...
Prompt(c) ==
    /\ load(config) # Failed
    /\ shown' = [shown EXCEPT ![c] = parseUpstreamUri(formatUpstreamUri(load(config)))]
    /\ UNCHANGED <<config, saved, told>>
\* ... then what was typed, or nothing, and SetSetting.
Dialogue(c, host, port) ==
    LET typed == IF host = Nothing THEN shown[c].host ELSE host
        other == parseUpstreamUri(Bracketed(typed) \o <<":">> \o port)
    IN  /\ shown[c] # Failed
        /\ shown' = [shown EXCEPT ![c] = Failed]
        /\ IF port = Nothing THEN SetSetting(formatUpstreamUri([host |-> typed, port |-> shown[c].port]))
           ELSE IF other = Failed THEN UNCHANGED <<config, saved, told>>
           ELSE SetSetting(formatUpstreamUri([host |-> typed, port |-> other.port]))

\* Somebody edits the file, README:158-164.
Edit(host, port) ==
    /\ config' = [host |-> host, port |-> port] /\ saved' = FALSE /\ told' = Failed
    /\ UNCHANGED shown

Ports == {<<n>> : n \in Numbers} \cup {<<"0">>}

Next ==
    \/ \E host \in Texts, port \in Ports :
          Command(host \o <<":">> \o port) \/ Command(<<"[">> \o host \o <<"]", ":">> \o port)
    \/ \E c \in Clients : Prompt(c)
    \/ \E c \in Clients, host \in Texts \cup {Nothing}, port \in Ports \cup {Nothing} :
          Dialogue(c, host, port)
    \/ \E host \in Texts, port \in Ports : Edit(host, port)

Spec == Init /\ [][Next]_vars

-----------------------------------------------------------------------------
(* Properties *)

\* isValidHost lets a vertical tab or a form feed pass, which trim strips.
Padded(host) == host # <<>> /\ (Head(host) = "feed" \/ Last(host) = "feed")

\* config.cpp:15-177, tests/test_config.cpp:43, main.cpp:99: what a setting has answered is what
\* the next on loads, and what is loaded is what the next dialogue shows, though it goes through
\* a file, a URI and two parsers with rules of their own.  There are two exceptions, in hosts
\* that both parsers let pass.  A feed at an end of the host is lost in the file, and with it the
\* whole setting when the rest is no host; a feed within it is kept.  A host with an opening
\* bracket is loaded, but not shown.
SettingTakesEffect ==
    saved => /\ ~Padded(told.host) => load(config) = told
             /\ load(config) \in {Failed, [told EXCEPT !.host = trim(@)]}
             /\ load(config) # Failed /\ ~Has(config.host, "[") =>
                   parseUpstreamUri(formatUpstreamUri(load(config))) = load(config)
=============================================================================
