----------------------------- MODULE MCSettings -----------------------------
(* Values for the constants of Settings: config files of few lines each, so  *)
(* that the commands come in every order, and some that include one another. *)

Files == [
  main     |-> <<<<"opml_url", "u">>, <<"include", "keys">>, <<"include", "main">>>>,
  keys     |-> <<<<"bind-key", "j", "down">>, <<"include", "main">>, <<"unbind-key", "q", "feedlist">>>>,
  broken   |-> <<<<"reload", "yes">>, <<"reload", "maybe">>, <<"retries", "2">>>>,
  missing  |-> <<<<"include", "nowhere">>>>,
  urls     |-> <<<<"opml_url", "u", "v">>>>,
  proxies  |-> <<<<"proxy", "socks5">>, <<"browser", "">>, <<"retries", "0">>>>,
  numbers  |-> <<<<"retries", "">>>>,
  up       |-> <<<<"bind-key", "q", "down", "feedlist">>>>,
  everywhere |-> <<<<"bind-key", "j", "down", "all">>>>,
  opens    |-> <<<<"bind-key", "DOWN", "open", "articlelist">>>>,
  ones     |-> <<<<"bind-key", "j", "one", "articlelist">>>>,
  unbinds  |-> <<<<"unbind-key", "DOWN">>, <<"bind-key", "q", "nothing">>>>,
  macros   |-> <<<<"macro", "m", "open", ";", "down", "x", ";", "quit">>, <<"macro", "n">>>>,
  badmacro |-> <<<<"macro", "m", ";", "x">>>>,
  rules    |-> <<<<"define-filter", "f", "e">>, <<"ignore-article", "*", "e">>, <<"always-download", "u", "v">>,
                 <<"reset-unread-on-update", "u">>, <<"define-filter", "f", "(">>>>,
  colors   |-> <<<<"color", "info", "red", "default", "bold">>, <<"color", "info", "default", "red">>>>,
  badcolor |-> <<<<"color", "nothing", "red", "red">>>>,
  marks    |-> <<<<"highlight", "all", "rx", "red">>, <<"highlight", "article", "rx2", "default", "red", "bold">>>>,
  articles |-> <<<<"highlight-article", "e", "red", "default">>>>]

Values == {<<"reload", "maybe">>, <<"browser", "w3m">>, <<"opml_url", "w">>, <<"retries", "">>}
=============================================================================
