---------------------------- MODULE MCDeployment ----------------------------
(* An instance of Deployment for TLC. *)
EXTENDS Deployment, TLC

\* A host with a public and a private interface; "junk" has no port.
TheHostOf == (":80" :> "") @@ ("public:80" :> "public")
             @@ ("localhost:80" :> "localhost") @@ ("127.0.0.1:80" :> "127.0.0.1")
             @@ ("private:81" :> "private")
ThePortOf == (":80" :> "80") @@ ("public:80" :> "80")
             @@ ("localhost:80" :> "80") @@ ("127.0.0.1:80" :> "80")
             @@ ("private:81" :> "81")
TheSockets == (":80" :> {"eth80", "lo80"}) @@ ("public:80" :> {"eth80"})
              @@ ("localhost:80" :> {"lo80"}) @@ ("127.0.0.1:80" :> {"lo80"})
              @@ ("private:81" :> {"lo81"}) @@ ("junk" :> {})
TheDest == (":80" :> "lo80") @@ ("public:80" :> "eth80")
           @@ ("localhost:80" :> "lo80") @@ ("127.0.0.1:80" :> "lo80")
           @@ ("private:81" :> "lo81") @@ ("junk" :> "none")

\* The pattern "" matches everything, "bad(" does not compile.
TheMatch == ("a" :> {"a.com"}) @@ ("" :> {"a.com", "b.com"})

TheClean == ("/_controlPath" :> "/_controlPath") @@ ("/c" :> "/c") @@ ("/c/" :> "/c")

TheFiles ==
    {[NoConfig EXCEPT !.listen = "localhost:80", !.signatureKey = "key", !.allowedHosts = <<"a">>]}

TheEnvString ==
    ("listen" :> {"", ":80", "public:80", "junk"})
    @@ ("listenControl" :> {"", "private:81", "127.0.0.1:80"})
    @@ ("signatureKey" :> {""}) @@ ("controlPath" :> {"/c", "/c/"}) @@ ("controlMethod" :> {"PUT"})

Text(parts) == [json |-> FALSE, valid |-> TRUE, parts |-> parts]
Array(parts) == [json |-> TRUE, valid |-> TRUE, parts |-> parts]

TheEnvList ==
    ("allowedHosts" :> {Text(<<"", "">>), Text(<<"", "a">>), Array(<<"a", "bad(">>),
                        [json |-> TRUE, valid |-> FALSE, parts |-> << >>]})
    @@ ("allowedClients" :> {Text(<<"i1">>), Array(<<"i2", "">>)})

TheOptions ==
    [identifier : {"", "i1"}, domain : {"", "a.com", "b.com"},
     address : {"", "public:80", "private:81"}, omitSignatureKey : BOOLEAN]

\* By hand: one without the path and the method, one with a wrong key for another
\* domain, one that is not complete.
TheHandWritten ==
    {[identifier |-> "i1", serverAddress |-> "public:80", signatureKey |-> "key",
      controlPath |-> "", controlMethod |-> "", domain |-> "a.com"],
     [identifier |-> "i2", serverAddress |-> "private:81", signatureKey |-> "other",
      controlPath |-> "/c/", controlMethod |-> "PUT", domain |-> "b.com"],
     [identifier |-> "i1", serverAddress |-> "public:80", signatureKey |-> "key",
      controlPath |-> "", controlMethod |-> "", domain |-> ""]}
=============================================================================
