----------------------------- MODULE MCTwrExchange -----------------------------
(* A small instance of TwrExchange.                                        *)
EXTENDS TwrExchange
================================================================================
