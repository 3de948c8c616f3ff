------------------------------- MODULE MCHttp -------------------------------
(* The chain with three clients, the third of them Tiny's own.             *)
EXTENDS Http

CONSTANTS c1, c2, d1

MCHeaderName == {"host:", "user-agent:", "connection:", "proxy-connection:", "x:"}

MCParts == [u \in {"/", "/none", "/cgi-bin/a", "/cgi-bin/b", "/dir", "/empty", "/../x"} |->
              CASE u = "/" -> <<"", "">>
                [] u = "/none" -> <<"", "none">>
                [] u = "/cgi-bin/a" -> <<"", "cgi-bin", "a">>
                [] u = "/cgi-bin/b" -> <<"", "cgi-bin", "b">>
                [] u = "/dir" -> <<"", "dir">>
                [] u = "/empty" -> <<"", "empty">>
                [] u = "/../x" -> <<"", "..", "x">>]

MCMode == [f \in {<<"home.html">>, <<"empty">>, <<"dir">>, <<"cgi-bin", "a">>, <<"cgi-bin", "b">>} |->
             CASE f = <<"dir">> -> {}
               [] f = <<"cgi-bin", "a">> -> {"read", "run"}
               [] OTHER -> {"read"}]

MCContent == [f \in DOMAIN MCMode |->
                CASE f = <<"home.html">> -> <<"i", "j", "k", "l">>
                  [] f = <<"cgi-bin", "a">> -> <<"s", "t", "u", "v", "w">>
                  [] OTHER -> <<>>]

Http(path) == [scheme |-> "http", hosted |-> TRUE, path |-> path]
MCParsed == [u \in {"h/", "h/none", "h/cgi", "h:80/", "s/", "nohost"} |->
               CASE u = "h/" -> Http("/")
                 [] u = "h:80/" -> Http("/")
                 [] u = "h/none" -> Http("/none")
                 [] u = "h/cgi" -> Http("/cgi-bin/a")
                 [] u = "s/" -> [scheme |-> "https", hosted |-> TRUE, path |-> "/"]
                 [] u = "nohost" -> [scheme |-> "http", hosted |-> FALSE, path |-> "/"]]

Get(u, headers) == <<"GET", u, CRLF>> \o headers \o <<CRLF>>

(* Requests that are refused, with a host header, with the client's own    *)
(* connection header, with a line that is cut, too long in all, with a     *)
(* header that Tiny cannot parse.                                          *)
Choice(r1, r2, r3) == [c \in {c1, c2, d1} |-> CASE c = c1 -> r1 [] c = c2 -> r2 [] c = d1 -> r3]

MCRequests ==
  {Choice(Get("h/", <<"connection:", CRLF, "host:", CRLF>>), Get("h/", <<>>), <<>>),
   Choice(Get("h/", <<"x:", LF>>), Get("h:80/", <<>>), <<>>),
   Choice(Get("h/cgi", <<>>), <<"GET", "s/", CRLF, CRLF>>, <<>>),
   Choice(<<>>, <<"POST", "h/", CRLF, CRLF>>, Get("/cgi-bin/b", <<"x:", CRLF>>)),
   Choice(<<"junk", CRLF, "x:", "v", "v", "v", "v", "v", CRLF, CRLF>>, <<>>, Get("/dir", <<>>)),
   Choice(Get("nohost", <<>>), Get("h/none", <<"?", CRLF>>), Get("/empty", <<>>)),
   Choice(Get("h/", <<"x:", "v", "v", "v", "connection:", CRLF>>), <<>>, Get("/../x", <<>>)),
   Choice(Get("h/", <<"x:", "v", "v", CRLF, "x:", "v", "v", CRLF>>), Get("h/", <<>>), <<>>)}
=============================================================================
