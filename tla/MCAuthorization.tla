-------------------------- MODULE MCAuthorization --------------------------
EXTENDS Authorization

CONSTANTS sol, x, y

OneOrBoth == {{x}, {x, sol}}
Single == {{x}, {y}}
=============================================================================
