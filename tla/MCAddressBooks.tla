--------------------------- MODULE MCAddressBooks ---------------------------
(***************************************************************************)
(* Constants for model checking AddressBooks: two spellings of one URL,    *)
(* which a DirectEntryAddressBook resolves, and a hashed email address,    *)
(* which two RelayServiceAddressBooks do.                                  *)
(***************************************************************************)
EXTENDS AddressBooks

CONSTANTS direct, relay1, relay2, url, URL, email, e1, e2

Kinds == [b \in Book |-> IF b = direct THEN "direct" ELSE "relay"]

Forms == {<<direct, url>>, <<direct, URL>>, <<relay1, email>>, <<relay2, email>>}

IgnoreCase == [n \in Name |-> IF n = URL THEN url ELSE n]

\* The spellings of the URL lead to different endpoints.  One relay has an entry
\* for the email address, the other one that does not verify, until an entry is
\* published: then they may agree, differ or know nothing.
Holdings ==
    {[s \in Serves |-> CASE s[2] = url    -> e1
                        [] s[1] = relay2 -> "bad"
                        [] OTHER         -> e2]}
=============================================================================
