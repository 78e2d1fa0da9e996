CONSTANTS
  Var = {"PATH", "HTTP_PROXY", "API_KEY", "NO_PROXY", "no_proxy", "SANDBOX_NETWORK"}
  Proxy = {"HTTP_PROXY"}
  Secret = {"API_KEY"}
  Dir = {"bin", "/usr/bin"}
  Relative = {"bin"}
  Path <- MCPath
  DefPath <- MCDefPath
SPECIFICATION Spec
INVARIANT BrokerNeverCrashes
CHECK_DEADLOCK FALSE
