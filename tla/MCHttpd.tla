------------------------------ MODULE MCHttpd ------------------------------
(* Instances of Httpd for TLC.                                             *)
EXTENDS Httpd

(* A page with two tags, the first of them behind as much text as the send *)
(* buffer has room for, and a plain file.                                  *)
Pages == [demo |-> <<"x", "y", "z", "#", "#", "w">>, notFound |-> <<"l", "m", "n">>]

TwoBytes == <<"i", "j">>
============================================================================
