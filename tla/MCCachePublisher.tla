-------------------------- MODULE MCCachePublisher --------------------------
(***************************************************************************)
(* A root that can never be pushed, a disk image, a root that stands for   *)
(* it and is the first toolchain, and the second toolchain, whose closure  *)
(* includes it.                                                            *)
(***************************************************************************)
EXTENDS CachePublisher, TLC

MCOrder == <<"bad", "app", "image", "cc">>
MCClosure == "bad" :> {"bad"} @@ "app" :> {"app"} @@ "cc" :> {"cc", "app"} @@ "image" :> {"image"}
MCExtra == "wrapper" :> <<"app", "cc">>
=============================================================================
