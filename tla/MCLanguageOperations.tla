----------------------- MODULE MCLanguageOperations -----------------------
EXTENDS LanguageOperations

(* Options of every kind: scopes, values, truths, oo's own protections,    *)
(* other sources, bare words, and values that oo knows nothing of.         *)
MCOptions == {
    Flag("--global"), Flag("--no-global"), Flag("--prefix"), Option("--prefix", "dir"),
    Flag("--loglevel"), Flag("--ignore-scripts"), Flag("--registry"), Flag("--target"),
    Option("--only-binary", ":all:"), Option("--index-url", "url"), Bare("false"), Bare("word"),
    Flag("--src"), Flag("--otp")}

MCSystems == {
    [nodejs |-> "none", python3 |-> "none"], [nodejs |-> "good", python3 |-> "good"],
    [nodejs |-> "bad", python3 |-> "bad"], [nodejs |-> "good", python3 |-> "venv"],
    [nodejs |-> "none", python3 |-> "lone"]}

MCSettings == {
    <<"global", "user", "yes">>, <<"command", "user", "no">>, <<"command", "user", "yes">>,
    <<"env", "user", "yes">>, <<"global", "target", "yes">>, <<"command", "target", "yes">>,
    <<"env", "target", "yes">>, <<"global", "python", "yes">>, <<"command", "python", "yes">>,
    <<"env", "home", "yes">>, <<"global", "extra-index-url", "yes">>,
    <<"global", "find-links", "yes">>, <<"env", "find-links", "yes">>}
=============================================================================
