SPECIFICATION Spec
CONSTANTS
  c1 = c1
  c2 = c2
  c3 = c3
  c4 = c4
  site = site
  other = other
  page = page
  mirror = mirror
  private = private
  Callers <- MCCallers
  Fetches <- MCCallers
  Domains <- MCDomains
  DomainOf <- MCDomainOf
  Urls <- MCUrls
  Allowed <- MCAllowed
  UrlOf <- MCUrlOf
  Interval = 1
  Concurrency = 1
  LastAsk = 1
  Horizon = 2
  MaxAttempts = 2
  MaxRedirects = 1
INVARIANTS TypeOK Paced Admitted NoUrlTwice RedirectsBlamedRightly AttemptsTell
 
CHECK_DEADLOCK FALSE
