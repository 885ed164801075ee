SPECIFICATION WebSpec
CONSTANTS
  web = web
  cli = cli
  r1 = r1
  r2 = r2
  tunnel = tunnel
  Procs = {web, cli}
  Rows = {r1, r2}
  Clients = {tunnel}
  Window = 2
  MaxAttempts = 3
  Lockout = 5
INVARIANTS
  RetryIsSafe
  GuessesAreBounded
  LockoutIsEarned
