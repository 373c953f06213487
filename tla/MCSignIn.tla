-------------------------------- MODULE MCSignIn --------------------------------
\* A flow with a store beside one with a token, and a password flow.
EXTENDS SignIn

MCBuilder == [f \in {"store", "token", "password"} |-> f]
MCCasts == {{"store", "token"}, {"password"}}
MCGuards == {{}, {"none"}, {"email"}, {"device"}, {"device", "email"}, {"other"},
             {"none", "other"}, {"untyped"}, {"untyped", "email"}}
=================================================================================
