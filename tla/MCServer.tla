------------------------------ MODULE MCServer ------------------------------
EXTENDS Server
\* "/a", "/a/b", "/a/:x", "/:y/b", perhaps behind "/:z": three of them match "/a/b".
MCPaths == {<<Seg("a")>>, <<Seg("a"), Seg("b")>>, <<Seg("a"), Cap("x")>>, <<Cap("y"), Seg("b")>>}
MCGroupPaths == {<<Cap("z")>>}
MCRequestPaths == {<<"a">>, <<"a", "b">>, <<"%", "b">>, <<"%", "a", "%">>}
=============================================================================
